---- MODULE Spec2Model ----
(***************************************************************************)
(* Verification model of the node tracker backend                          *)
(* (kyvra-tech/node-tracker-backed).                                       *)
(*                                                                         *)
(* The module holds one state machine per subsystem, each with its own     *)
(* specification over the shared variable list:                            *)
(*   SpecReg    registration pipeline (Submit / Approve / Reject)          *)
(*   SpecSched  cron scheduler (job wrapper, overlap suppression, Stop)    *)
(*   SpecMon    monitors: concurrent checkAll invocations within a day     *)
(*   SpecDay    monitors: one checkAll at a time, day after day            *)
(*   SpecRepo   repositories (scores, recent-status series)                *)
(*   SpecSync   roster sync from a file (bootstrap and gRPC variants)      *)
(*   SpecLoad   roster sync at one instant of the database clock            *)
(*   SpecStatus the daily-status upsert with all its columns               *)
(*   SpecRpc    JSON-RPC facade, one request per HTTP call                  *)
(*   SpecBatch  JSON-RPC facade, batches                                    *)
(*   SpecGet    single-row getters of the repositories                      *)
(*   SpecParse  the TCP probe's address parser                              *)
(*   SpecProbe  the retry loops of the three probes                         *)
(*   SpecPool   checkAll as a worker pool (SpecPoolFair: with fairness)     *)
(*   SpecGeo    the geo location cache                                      *)
(*   SpecLimit  the rate limiter middleware and its sweeper                 *)
(*   SpecTimeout the timeout middleware and its handler goroutines          *)
(***************************************************************************)
EXTENDS Integers, Sequences, FiniteSets, TLC

VARIABLES
    \* ---- registration pipeline ----
    registrations,   \* node_registrations table: sequence of rows, index = id
    servers,         \* monitored tables grpc_servers / jsonrpc_servers: set of rows
    call,            \* per concurrent RPC caller: the request in progress
    \* ---- scheduler ----
    cronRunning,     \* cron accepts ticks (between Start and cron.Stop)
    token,           \* per job: the SkipIfStillRunning channel holds its token
    jobPc,           \* per job: position of its latest invocation
    inflight,        \* per job: invocations launched and not yet returned
    pastDeadline,    \* per job: jobTimeout has elapsed since the invocation's ctx was made
    ctxErr,          \* per job: ctx.Err() of the invocation's context
    lastTick,        \* per job: what the latest tick did
    tickBit,         \* per job: flips at every tick
    lastLog,         \* per job: what the wrapper logged for the latest finished invocation
    activeJobs,      \* the WaitGroup counter s.activeJobs
    shutdown,        \* shutdownCtx is cancelled
    stopPc,          \* position of Stop
    stopElapsed,     \* minutes since Stop started to wait
    \* ---- monitored store (the tables of the entity class under analysis) ----
    cls,             \* entity class whose tables these are: bootstrap / grpc / jsonrpc
    today,           \* current UTC day number (CURRENT_DATE, time.Now().Truncate(24h))
    entity,          \* per entity: absent / active / inactive (the is_active column)
    score,           \* per entity: overall_score in hundredths of a percent
    rows,            \* daily status table: set of rows [id, date, color, success]
    \* ---- monitors ----
    runPc,           \* per checkAll invocation slot: idle / checking
    runToday,        \* per invocation: the day it computed at entry
    roster,          \* per invocation: the active entities it fetched at entry
    worker,          \* per invocation and entity: position / outcome of checkSingle
    checksToday,     \* checkAll invocations completed on the current day (saturating)
    prevRoster,      \* roster of the latest checkAll completed on the current day
    \* ---- repository calls ----
    scoresFresh,     \* updateAllScores was the last statement to change the store
    responded,       \* the last operation was getWithStatus
    series,          \* its response: per returned entity, a sequence of [date, color]
    advances,        \* number of clock advances taken
    \* ---- roster sync and the status upsert ----
    dbNow,           \* NOW() of the database
    nodes,           \* the monitored table a sync reconciles: per address, a row or NoNode
    source,          \* the roster source file: sequence of [address, name]
    lastSync,        \* how the latest sync since the source was edited ended
    syncBit,         \* flips at every sync
    statuses,        \* a daily status table with all its columns: set of rows
    lastStatus,      \* payload of the latest CreateStatus that wrote, and whether it repeated
    createBit,       \* flips at every CreateStatus call
    \* ---- JSON-RPC facade ----
    nodeRegistrations, \* node_registrations with all its columns: sequence of rows, index = id
    rpcReply,        \* the latest HTTP exchange: requests, responses, core operations run
    \* ---- single-row getters ----
    stored,          \* per repository: the keys (id k, address of row k) of its rows
    lastGet,         \* the latest getter call and what it returned
    \* ---- probes and the worker pool ----
    parseIn,         \* the address given to parseAddress, as its parts
    parseOut,        \* what parseAddress returned for it
    probe,           \* the probe call in progress: position, context, result so far
    pool,            \* the checkAll invocation in progress: workers by position, context
    \* ---- services at the edge: geo cache, rate limiter, timeout middleware ----
    geo,             \* GeoLocationService: cache, clock, and the lookup in progress
    limiter,         \* RateLimiter: client map, client objects, requests in progress
    inTimeout        \* per HTTP request: the Timeout middleware and its handler goroutine

regVars == <<registrations, servers, call>>

schedVars == <<cronRunning, token, jobPc, inflight, pastDeadline, ctxErr, lastTick, tickBit,
                    lastLog, activeJobs, shutdown, stopPc, stopElapsed>>

storeVars == <<cls, today, entity, score, rows>>

monVars == <<runPc, runToday, roster, worker, checksToday, prevRoster>>

repoVars == <<scoresFresh, responded, series, advances>>

syncVars == <<nodes, source, lastSync, syncBit>>

statusVars == <<statuses, lastStatus, createBit>>

rpcVars == <<nodeRegistrations, rpcReply>>

getVars == <<stored, lastGet>>

parseVars == <<parseIn, parseOut>>

probeVars == <<probe>>

poolVars == <<pool>>

facadeVars == <<rpcVars, getVars, parseVars, probeVars, poolVars>>

edgeVars == <<geo, limiter, inTimeout>>

outerVars == <<rpcVars, getVars, parseVars, probeVars, poolVars, edgeVars>>

persistVars == <<dbNow, syncVars, statusVars, outerVars>>

coreVars == <<regVars, schedVars, storeVars, monVars, repoVars, dbNow, syncVars, statusVars>>

\* Everything but the facade, getter, parser, probe and pool variables.
innerVars == <<coreVars, edgeVars>>

trackVars == <<storeVars, monVars, repoVars, persistVars>>

vars == <<registrations, servers, call,
          cronRunning, token, jobPc, inflight, pastDeadline, ctxErr, lastTick, tickBit,
          lastLog, activeJobs, shutdown, stopPc, stopElapsed,
          cls, today, entity, score, rows,
          runPc, runToday, roster, worker, checksToday, prevRoster,
          scoresFresh, responded, series, advances,
          dbNow, nodes, source, lastSync, syncBit, statuses, lastStatus, createBit,
          nodeRegistrations, rpcReply, stored, lastGet, parseIn, parseOut, probe, pool,
          geo, limiter, inTimeout>>

(***************************************************************************)
(* Registration pipeline                                                   *)
(***************************************************************************)

\* Bounds of the registration model.
MaxRegs == 2

\* Two concurrent RPC requests (one goroutine per incoming request).
Callers == {"c1", "c2"}
Addrs == {"a1", "a2"}
NodeTypes == {"grpc", "jsonrpc", "other"}

NoCall == [op |-> "none", pc |-> "idle", nodeType |-> "none", address |-> "none",
           id |-> 0, result |-> "none"]

RegInit ==
    /\ registrations = <<>>
    /\ servers = {}
    /\ call = [c \in Callers |-> NoCall]

\* registrationRepository.ExistsByAddress:
\*   SELECT EXISTS(... WHERE address = $1 AND status != 'rejected')
RegExistsByAddress(addr) ==
    \E i \in 1..Len(registrations) :
        /\ registrations[i].address = addr
        /\ registrations[i].status # "rejected"

\* grpcRepository.ServerExists / jsonrpcServerRepository.ExistsByAddress
ServerExists(table, addr) ==
    \E s \in servers : s.table = table /\ s.address = addr

\* grpcRepository.GetActiveServers / jsonrpcServerRepository.GetActiveServers:
\* the roster a checkAll of that class loads (WHERE is_active = true).
GetActiveServers(table) ==
    {s.address : s \in {x \in servers : x.table = table /\ x.is_active}}

\* RegistrationService.checkDuplicate: only grpc and jsonrpc have a table.
checkDuplicate(nodeType, addr) ==
    IF nodeType \in {"grpc", "jsonrpc"} THEN ServerExists(nodeType, addr) ELSE FALSE

\* The call returns: the caller slot keeps only the outcome.
Return(c, res) ==
    call' = [call EXCEPT ![c] = [NoCall EXCEPT !.result = res]]

\* validateNode: the probe matching node_type decides reachability (it touches
\* no table); an unknown node type is an error.
validateNode(nodeType, probeSuccess) ==
    IF nodeType \in {"grpc", "jsonrpc"} THEN probeSuccess ELSE FALSE

\* SubmitRegistration is entered with a request and validates the node first.
SubmitBegin(c) ==
    /\ call[c].pc = "idle"
    /\ \E t \in NodeTypes, a \in Addrs, probeSuccess \in BOOLEAN :
         IF validateNode(t, probeSuccess)
         THEN call' = [call EXCEPT ![c] = [op |-> "submit", pc |-> "dup", nodeType |-> t,
                                          address |-> a, id |-> 0, result |-> "none"]]
         ELSE Return(c, "error")
    /\ UNCHANGED <<registrations, servers, schedVars, trackVars>>

\* checkDuplicate against the monitored table (the store read may fail).
SubmitCheckDuplicate(c) ==
    /\ call[c].op = "submit" /\ call[c].pc = "dup"
    /\ \E storeOk \in BOOLEAN :
         IF storeOk /\ ~checkDuplicate(call[c].nodeType, call[c].address)
         THEN call' = [call EXCEPT ![c].pc = "pending"]
         ELSE Return(c, "error")
    /\ UNCHANGED <<registrations, servers, schedVars, trackVars>>

\* registrationRepo.ExistsByAddress: a non-rejected registration owns the address.
SubmitCheckPending(c) ==
    /\ call[c].op = "submit" /\ call[c].pc = "pending"
    /\ \E storeOk \in BOOLEAN :
         IF storeOk /\ ~RegExistsByAddress(call[c].address)
         THEN call' = [call EXCEPT ![c].pc = "create"]
         ELSE Return(c, "error")
    /\ UNCHANGED <<registrations, servers, schedVars, trackVars>>

\* registrationRepository.Create: plain INSERT, id assigned by the store.
RegCreate(nodeType, addr) ==
    Append(registrations, [nodeType |-> nodeType, address |-> addr, status |-> "pending"])

SubmitCreate(c) ==
    /\ call[c].op = "submit" /\ call[c].pc = "create"
    /\ \E storeOk \in BOOLEAN :
         IF storeOk /\ Len(registrations) < MaxRegs
         THEN /\ registrations' = RegCreate(call[c].nodeType, call[c].address)
              /\ Return(c, "ok")
         ELSE /\ Return(c, "error")
              /\ UNCHANGED registrations
    /\ UNCHANGED <<servers, schedVars, trackVars>>

\* JsonRPCService.RegisterNode (method registerNode of JsonRPCHandler): no probe
\* and no look at the monitored tables; the error of ExistsByAddress is dropped.
RegisterNodeBegin(c) ==
    /\ call[c].pc = "idle"
    /\ \E t \in NodeTypes, a \in Addrs, storeOk \in BOOLEAN :
         IF storeOk /\ RegExistsByAddress(a)
         THEN Return(c, "error")
         ELSE call' = [call EXCEPT ![c] = [op |-> "register", pc |-> "create", nodeType |-> t,
                                          address |-> a, id |-> 0, result |-> "none"]]
    /\ UNCHANGED <<registrations, servers, schedVars, trackVars>>

\* JsonRPCService.RegisterNode, the insert: the table's CHECK on node_type
\* refuses anything but grpc and jsonrpc.
RegisterNodeCreate(c) ==
    /\ call[c].op = "register" /\ call[c].pc = "create"
    /\ \E storeOk \in BOOLEAN :
         IF storeOk /\ call[c].nodeType \in {"grpc", "jsonrpc"}
                    /\ Len(registrations) < MaxRegs
         THEN /\ registrations' = RegCreate(call[c].nodeType, call[c].address)
              /\ Return(c, "ok")
         ELSE /\ Return(c, "error")
              /\ UNCHANGED registrations
    /\ UNCHANGED <<servers, schedVars, trackVars>>

NilReg == [nodeType |-> "none", address |-> "none", status |-> "nil"]

\* registrationRepository.GetByID: nil when the row does not exist.
RegGetByID(id) ==
    IF id \in 1..Len(registrations) THEN registrations[id] ELSE NilReg

\* registrationRepository.UpdateStatus: UPDATE ... WHERE id = $5, whatever the
\* row's current status is.
RegUpdateStatus(id, status) ==
    IF id \in 1..Len(registrations)
    THEN [registrations EXCEPT ![id].status = status]
    ELSE registrations

\* grpcRepository.CreateServer / jsonrpcServerRepository.CreateServer:
\* INSERT ... ON CONFLICT (address) DO NOTHING.  The gRPC insert has no geo
\* columns; the JSON-RPC insert stores the resolved geo.
\* GeoLocationService.GetLocation, as seen by Approve: the oracle resolves a
\* valid location for some addresses and none for the others.
GeoValid(addr) == addr = "a1"

CreateServerInactive(table, addr, geoValid) ==
    IF ServerExists(table, addr)
    THEN servers
    ELSE servers \cup {[table |-> table, address |-> addr, is_active |-> FALSE,
                        hasGeo |-> (table = "jsonrpc" /\ geoValid)]}

CreateServer(table, addr, geoValid) ==
    IF ServerExists(table, addr)
    THEN servers
    ELSE servers \cup {[table |-> table, address |-> addr, is_active |-> TRUE,
                        hasGeo |-> (table = "jsonrpc" /\ geoValid)]}

\* The review goes on with the row GetByID returned.
ReviewAdmit(c, op, id, reg) ==
    call' = [call EXCEPT ![c] = [op |-> op,
                pc |-> IF op = "approve" THEN "server" ELSE "update",
                nodeType |-> reg.nodeType, address |-> reg.address,
                id |-> id, result |-> "none"]]

ReviewBeginAnyStatus(c, op) ==
    /\ call[c].pc = "idle"
    /\ \E id \in 1..MaxRegs, storeOk \in BOOLEAN :
         LET reg == RegGetByID(id) IN
         IF ~storeOk THEN Return(c, "error")
         ELSE IF reg = NilReg THEN Return(c, "not found")
         ELSE ReviewAdmit(c, op, id, reg)
    /\ UNCHANGED <<registrations, servers, schedVars, trackVars>>

\* ApproveRegistration / RejectRegistration, first part: GetByID, nil check and
\* the "pending" check, all on the row as it was read.  The three early returns
\* are the store's error, "registration not found" and "registration is not
\* pending".
ReviewBegin(c, op) ==
    /\ call[c].pc = "idle"
    /\ \E id \in 1..MaxRegs, storeOk \in BOOLEAN :
         LET reg == RegGetByID(id) IN
         IF ~storeOk THEN Return(c, "error")
         ELSE IF reg = NilReg THEN Return(c, "not found")
         ELSE IF reg.status # "pending" THEN Return(c, "not pending")
         ELSE ReviewAdmit(c, op, id, reg)
    /\ UNCHANGED <<registrations, servers, schedVars, trackVars>>

ApproveBegin(c) == ReviewBegin(c, "approve")

RejectBegin(c) == ReviewBegin(c, "reject")

\* ApproveRegistration, second part: best-effort geo lookup, then the insert
\* into the table matching node_type.
ApproveCreateServer(c) ==
    /\ call[c].op = "approve" /\ call[c].pc = "server"
    /\ \E storeOk \in BOOLEAN :
         IF storeOk
         THEN /\ servers' = IF call[c].nodeType \in {"grpc", "jsonrpc"}
                            THEN CreateServer(call[c].nodeType, call[c].address,
                                              GeoValid(call[c].address))
                            ELSE servers
              /\ call' = [call EXCEPT ![c].pc = "update"]
         ELSE /\ Return(c, "error")
              /\ UNCHANGED <<servers, schedVars, trackVars>>
    /\ UNCHANGED <<registrations, schedVars, trackVars>>

\* ApproveRegistration, last part: UpdateStatus(id, "approved", ...).
ApproveUpdateStatus(c) ==
    /\ call[c].op = "approve" /\ call[c].pc = "update"
    /\ \E storeOk \in BOOLEAN :
         IF storeOk
         THEN /\ registrations' = RegUpdateStatus(call[c].id, "approved")
              /\ Return(c, "ok")
         ELSE /\ Return(c, "error")
              /\ UNCHANGED registrations
    /\ UNCHANGED <<servers, schedVars, trackVars>>

\* RejectRegistration, last part: UpdateStatus(id, "rejected", reason, ...).
RejectUpdateStatus(c) ==
    /\ call[c].op = "reject" /\ call[c].pc = "update"
    /\ \E storeOk \in BOOLEAN :
         IF storeOk
         THEN /\ registrations' = RegUpdateStatus(call[c].id, "rejected")
              /\ Return(c, "ok")
         ELSE /\ Return(c, "error")
              /\ UNCHANGED registrations
    /\ UNCHANGED <<servers, schedVars, trackVars>>

RegNext ==
    \E c \in Callers :
        \/ SubmitBegin(c)
        \/ SubmitCheckDuplicate(c)
        \/ SubmitCheckPending(c)
        \/ SubmitCreate(c)
        \/ RegisterNodeBegin(c)
        \/ RegisterNodeCreate(c)
        \/ ApproveBegin(c)
        \/ ApproveCreateServer(c)
        \/ ApproveUpdateStatus(c)
        \/ RejectBegin(c)
        \/ RejectUpdateStatus(c)

(***************************************************************************)
(* Scheduler                                                               *)
(***************************************************************************)

\* Two of the named jobs registered by Start.
Jobs == {"bootstrapCheck", "grpcCheck"}

\* Bound: invocations of one job that the model lets be in flight at once.
MaxInflight == 2

\* time.After(1 * time.Minute) in Stop, in minutes.
DrainTimeout == 1

SchedInit ==
    /\ cronRunning = TRUE
    /\ token = [j \in Jobs |-> TRUE]
    /\ jobPc = [j \in Jobs |-> "idle"]
    /\ inflight = [j \in Jobs |-> 0]
    /\ pastDeadline = [j \in Jobs |-> FALSE]
    /\ ctxErr = [j \in Jobs |-> "none"]
    /\ lastTick = [j \in Jobs |-> "none"]
    /\ tickBit = [j \in Jobs |-> FALSE]
    /\ lastLog = [j \in Jobs |-> "none"]
    /\ activeJobs = 0
    /\ shutdown = FALSE
    /\ stopPc = "none"
    /\ stopElapsed = 0

\* Mutant of SkipIfStillRunning: cron.New() without the chain, every tick runs.
NoSkipChain(j) == FALSE

\* cron.WithChain(cron.SkipIfStillRunning(...)): each scheduled job owns a
\* one-slot channel; a tick that finds it empty is skipped.
SkipIfStillRunning(j) == ~token[j]

\* A cron tick of job j fires: the job is launched on its own goroutine unless
\* the chain skips it.  Nothing is remembered about a skipped tick.
Tick(j) ==
    /\ cronRunning
    /\ tickBit' = [tickBit EXCEPT ![j] = ~tickBit[j]]
    /\ IF SkipIfStillRunning(j)
       THEN /\ lastTick' = [lastTick EXCEPT ![j] = "skipped"]
            /\ UNCHANGED <<token, jobPc, inflight>>
       ELSE /\ inflight[j] < MaxInflight
            /\ lastTick' = [lastTick EXCEPT ![j] = "ran"]
            /\ token' = [token EXCEPT ![j] = FALSE]
            /\ jobPc' = [jobPc EXCEPT ![j] = "launched"]
            /\ inflight' = [inflight EXCEPT ![j] = inflight[j] + 1]
    /\ UNCHANGED <<cronRunning, pastDeadline, ctxErr, lastLog, activeJobs, shutdown,
                   stopPc, stopElapsed, regVars, trackVars>>

\* Mutant of WithTimeout: the job's context derived from
\* context.Background() instead of shutdownCtx.
WithTimeoutOfBackground(j) == "none"

\* context.WithTimeout(s.shutdownCtx, s.jobTimeout): a child of a cancelled
\* parent is cancelled from the start.
WithTimeout(j) == IF shutdown THEN "canceled" ELSE "none"

\* createJobWrapper, entry: activeJobs.Add(1), the job's context is made and
\* the job body starts.
WrapperEnter(j) ==
    /\ jobPc[j] = "launched"
    /\ jobPc' = [jobPc EXCEPT ![j] = "running"]
    /\ activeJobs' = activeJobs + 1
    /\ ctxErr' = [ctxErr EXCEPT ![j] = WithTimeout(j)]
    /\ pastDeadline' = [pastDeadline EXCEPT ![j] = FALSE]
    /\ UNCHANGED <<cronRunning, token, inflight, lastTick, tickBit, lastLog, shutdown,
                   stopPc, stopElapsed, regVars, trackVars>>

\* Mutant of DeadlineErr: the job's context is made without a timeout.
DeadlineIgnored(j) == ctxErr[j]

\* The timer of the job's context: what ctx.Err() is once jobTimeout has
\* elapsed.  A context that is already cancelled keeps its error.
DeadlineErr(j) == IF ctxErr[j] = "none" THEN "deadline" ELSE ctxErr[j]

\* jobTimeout elapses while the job body is still running.
DeadlinePasses(j) ==
    /\ jobPc[j] = "running"
    /\ ~pastDeadline[j]
    /\ pastDeadline' = [pastDeadline EXCEPT ![j] = TRUE]
    /\ ctxErr' = [ctxErr EXCEPT ![j] = DeadlineErr(j)]
    /\ UNCHANGED <<cronRunning, token, jobPc, inflight, lastTick, tickBit, lastLog,
                   activeJobs, shutdown, stopPc, stopElapsed, regVars, trackVars>>

\* What the wrapper logs when the job body ends: a panic skips the rest of
\* the wrapper's body; otherwise "Job timed out" is logged when ctx.Err() is
\* DeadlineExceeded.
WrapperLog(j, outcome) ==
    IF outcome = "panic" THEN "panic"
    ELSE IF ctxErr[j] = "deadline" THEN "timeout"
    ELSE outcome

\* Mutant of JobReturn: activeJobs.Done() and the chain's token release are
\* not deferred, so a panic skips them.
JobReturnLeaksOnPanic(j) ==
    /\ jobPc[j] = "running"
    /\ \E outcome \in {"ok", "error", "panic"} :
         /\ lastLog' = [lastLog EXCEPT ![j] = WrapperLog(j, outcome)]
         /\ activeJobs' = IF outcome = "panic" THEN activeJobs ELSE activeJobs - 1
         /\ token' = [token EXCEPT ![j] = outcome # "panic"]
    /\ inflight' = [inflight EXCEPT ![j] = inflight[j] - 1]
    /\ jobPc' = [jobPc EXCEPT ![j] = IF inflight[j] = 1 THEN "idle" ELSE "running"]
    /\ pastDeadline' = [pastDeadline EXCEPT ![j] = FALSE]
    /\ ctxErr' = [ctxErr EXCEPT ![j] = "none"]
    /\ UNCHANGED <<cronRunning, lastTick, tickBit, shutdown, stopPc, stopElapsed, regVars, trackVars>>

\* The counts the scheduler keeps about its jobs: the struct has the
\* activeJobs WaitGroup and no other counter.
JobCounters == <<activeJobs>>

\* The job body ends (returns nil, returns an error, or panics); the deferred
\* calls run (recover, cancel, activeJobs.Done) and the chain puts the token
\* back.  A job that hangs never takes this step.
JobReturn(j) ==
    /\ jobPc[j] = "running"
    /\ \E outcome \in {"ok", "error", "panic"} :
         lastLog' = [lastLog EXCEPT ![j] = WrapperLog(j, outcome)]
    /\ activeJobs' = activeJobs - 1
    /\ inflight' = [inflight EXCEPT ![j] = inflight[j] - 1]
    /\ jobPc' = [jobPc EXCEPT ![j] = IF inflight[j] = 1 THEN "idle" ELSE "running"]
    /\ token' = [token EXCEPT ![j] = TRUE]
    /\ pastDeadline' = [pastDeadline EXCEPT ![j] = FALSE]
    /\ ctxErr' = [ctxErr EXCEPT ![j] = "none"]
    /\ UNCHANGED <<cronRunning, lastTick, tickBit, shutdown, stopPc, stopElapsed, regVars, trackVars>>

\* Stop, first statement: s.cron.Stop(): no tick starts a job any more.
StopCron ==
    /\ stopPc = "none"
    /\ stopPc' = "cronStopped"
    /\ cronRunning' = FALSE
    /\ UNCHANGED <<token, jobPc, inflight, pastDeadline, ctxErr, lastTick, tickBit, lastLog,
                   activeJobs, shutdown, stopElapsed, regVars, trackVars>>

\* Stop, second statement: s.shutdownCancel() cancels every context derived
\* from shutdownCtx that is not cancelled yet; then Stop starts to wait.
StopCancel ==
    /\ stopPc = "cronStopped"
    /\ stopPc' = "waiting"
    /\ shutdown' = TRUE
    /\ ctxErr' = [j \in Jobs |->
                    IF jobPc[j] = "running" /\ ctxErr[j] = "none" THEN "canceled"
                    ELSE ctxErr[j]]
    /\ stopElapsed' = 0
    /\ UNCHANGED <<cronRunning, token, jobPc, inflight, pastDeadline, lastTick, tickBit,
                   lastLog, activeJobs, regVars, trackVars>>

\* Mutant of StopTimerArmed: the select waits for the jobs only.
StopNoTimer == FALSE

\* The select in Stop has a time.After(1 * time.Minute) case.
StopTimerArmed == stopPc = "waiting"

\* A minute passes while Stop waits.  Time cannot pass the instant at which an
\* armed timer fires: the select takes that case.
Tock ==
    /\ stopPc = "waiting"
    /\ stopElapsed <= DrainTimeout
    /\ ~(StopTimerArmed /\ stopElapsed >= DrainTimeout)
    /\ stopElapsed' = stopElapsed + 1
    /\ UNCHANGED <<cronRunning, token, jobPc, inflight, pastDeadline, ctxErr, lastTick,
                   tickBit, lastLog, activeJobs, shutdown, stopPc, regVars, trackVars>>

\* Mutant of CronStopCtxDone: the context of cron.Stop() taken to be done as
\* soon as the cron has stopped.
CronStopCtxDoneAtOnce == ~cronRunning

\* The context returned by cron.Stop() is done when no launched job is left.
CronStopCtxDone == \A j \in Jobs : inflight[j] = 0

\* Stop returns through one of the three cases of its select.
StopReturnDone ==
    /\ stopPc = "waiting"
    /\ activeJobs = 0
    /\ stopPc' = "returnedDone"
    /\ UNCHANGED <<cronRunning, token, jobPc, inflight, pastDeadline, ctxErr, lastTick,
                   tickBit, lastLog, activeJobs, shutdown, stopElapsed, regVars, trackVars>>

StopReturnCtx ==
    /\ stopPc = "waiting"
    /\ CronStopCtxDone
    /\ stopPc' = "returnedCtx"
    /\ UNCHANGED <<cronRunning, token, jobPc, inflight, pastDeadline, ctxErr, lastTick,
                   tickBit, lastLog, activeJobs, shutdown, stopElapsed, regVars, trackVars>>

StopReturnTimeout ==
    /\ stopPc = "waiting"
    /\ StopTimerArmed
    /\ stopElapsed >= DrainTimeout
    /\ stopPc' = "returnedTimeout"
    /\ UNCHANGED <<cronRunning, token, jobPc, inflight, pastDeadline, ctxErr, lastTick,
                   tickBit, lastLog, activeJobs, shutdown, stopElapsed, regVars, trackVars>>

SchedNext ==
    \/ \E j \in Jobs : Tick(j)
    \/ \E j \in Jobs : WrapperEnter(j)
    \/ \E j \in Jobs : DeadlinePasses(j)
    \/ \E j \in Jobs : JobReturn(j)
    \/ StopCron
    \/ StopCancel
    \/ Tock
    \/ StopReturnDone
    \/ StopReturnCtx
    \/ StopReturnTimeout

(***************************************************************************)
(* Monitored store: entity table and daily status table of one class       *)
(***************************************************************************)

Classes == {"bootstrap", "grpc", "jsonrpc"}

\* Ids of the entities that can appear in the entity table.
Entities == {1, 2}

\* The score statement looks back INTERVAL '30 days' from CURRENT_DATE.
ScoreWindowDays == 30

StoreInit ==
    /\ cls \in Classes
    /\ today = 0
    /\ entity = [e \in Entities |-> "absent"]
    /\ score = [e \in Entities |-> 0]
    /\ rows = {}

\* SELECT ... WHERE is_active = true ORDER BY id
GetActive == {e \in Entities : entity[e] = "active"}

\* A check that never finds a row.
NoStatusForDate(e, d) == FALSE

\* SELECT EXISTS(SELECT 1 FROM ..._daily_status WHERE id = $1 AND date = $2)
HasStatusForDate(e, d) == \E x \in rows : x.id = e /\ x.date = d

\* A plain INSERT, without the ON CONFLICT clause.
InsertStatus(tbl, st) == tbl \cup {st}

\* INSERT ... ON CONFLICT (id, date) DO UPDATE SET color, success, ... = EXCLUDED.*
CreateStatus(tbl, st) ==
    {x \in tbl : ~(x.id = st.id /\ x.date = st.date)} \cup {st}

\* A colour that ignores the probe's outcome.
ColorAlwaysGreen(success) == 1

\* color := 0; if result.Success { color = 1 }
StatusColor(success) == IF success THEN 1 ELSE 0

\* The DailyStatus value checkSingle builds from the probe result.
NewStatus(e, d, success) ==
    [id |-> e, date |-> d, color |-> StatusColor(success), success |-> success]

\* Rows of e the score statement reads: date >= CURRENT_DATE - INTERVAL '30 days'.
WindowRows(tbl, e) == {x \in tbl : x.id = e /\ x.date >= today - ScoreWindowDays}

\* ROUND(x, 2) of x = num / den, in hundredths: half rounds away from zero.
Round2(num, den) == (2 * num * 100 + den) \div (2 * den)

\* COALESCE(ROUND(COUNT(success) * 100.0 / NULLIF(COUNT(*), 0), 2), 0)
ScoreOf(tbl, e) ==
    LET n == Cardinality(WindowRows(tbl, e))
        s == Cardinality({x \in WindowRows(tbl, e) : x.success})
    IN  IF n = 0 THEN 0 ELSE Round2(s * 100, n)

\* The bootstrap and gRPC statements divide by COUNT(*) without NULLIF: an active
\* entity without a row in the window makes the whole UPDATE fail.
DivisionByZero(tbl) ==
    /\ cls # "jsonrpc"
    /\ \E e \in GetActive : WindowRows(tbl, e) = {}

\* UPDATE ... SET overall_score = (...) WHERE is_active = true
UpdateAllScores(tbl) ==
    IF DivisionByZero(tbl)
    THEN score
    ELSE [e \in Entities |-> IF entity[e] = "active" THEN ScoreOf(tbl, e) ELSE score[e]]

(***************************************************************************)
(* Monitors: CheckAllNodes / CheckAllServers, one step per store statement *)
(***************************************************************************)

\* Concurrent invocations of checkAll (cron job and manual trigger); the slots
\* are interchangeable and are taken in order.
Runs == {1, 2}

\* const maxConcurrent = 10 (size of the semaphore channel)
maxConcurrent == 10

\* The completed-invocation counter stops counting at this value.
MaxChecksPerDay == 2

Completed(n) == IF n < MaxChecksPerDay THEN n + 1 ELSE n

Terminal == {"skipped", "wrote", "failed"}

NoWorkers == [e \in Entities |-> "none"]

MonInit ==
    /\ runPc = [r \in Runs |-> "idle"]
    /\ runToday = [r \in Runs |-> 0]
    /\ roster = [r \in Runs |-> {}]
    /\ worker = [r \in Runs |-> NoWorkers]
    /\ checksToday = 0
    /\ prevRoster = {}

\* Entry of checkAll: fetch the active roster, compute today, fan out one worker
\* per entity.  A failing roster query returns the error at once.
CheckAllStart(r) ==
    /\ runPc[r] = "idle"
    /\ \A o \in Runs : o < r => runPc[o] = "checking"
    /\ \E storeOk \in BOOLEAN :
         IF storeOk
         THEN /\ runPc' = [runPc EXCEPT ![r] = "checking"]
              /\ roster' = [roster EXCEPT ![r] = GetActive]
              /\ worker' = [worker EXCEPT ![r] =
                     [e \in Entities |-> IF e \in GetActive THEN "todo" ELSE "none"]]
              /\ runToday' = [runToday EXCEPT ![r] = today]
         ELSE UNCHANGED <<runPc, roster, worker, runToday>>
    /\ UNCHANGED <<checksToday, prevRoster, storeVars, repoVars, regVars, schedVars,
                   persistVars>>

\* The bootstrap and JSON-RPC monitors run up to maxConcurrent workers at once;
\* the gRPC monitor checks its servers one after the other, in roster order.
CanStart(r, e) ==
    IF cls = "grpc"
    THEN \A o \in roster[r] : (o < e => worker[r][o] \in Terminal)
    ELSE Cardinality({o \in roster[r] : worker[r][o] = "probing"}) < maxConcurrent

\* checkSingle, first statement: skip the entity if today's row exists.
WorkerCheck(r, e) ==
    /\ runPc[r] = "checking"
    /\ worker[r][e] = "todo"
    /\ CanStart(r, e)
    /\ \E storeOk \in BOOLEAN :
         worker' = [worker EXCEPT ![r][e] =
                IF ~storeOk THEN "failed"
                ELSE IF HasStatusForDate(e, runToday[r]) THEN "skipped"
                ELSE "probing"]
    /\ UNCHANGED <<storeVars, runPc, runToday, roster, checksToday, prevRoster, repoVars,
                   regVars, schedVars,
                   persistVars>>

\* checkSingle, remainder: the probe returns and its outcome is upserted.
WorkerSave(r, e) ==
    /\ runPc[r] = "checking"
    /\ worker[r][e] = "probing"
    /\ \E success \in BOOLEAN, storeOk \in BOOLEAN :
         IF storeOk
         THEN /\ rows' = CreateStatus(rows, NewStatus(e, runToday[r], success))
              /\ worker' = [worker EXCEPT ![r][e] = "wrote"]
              /\ scoresFresh' = FALSE
         ELSE /\ worker' = [worker EXCEPT ![r][e] = "failed"]
              /\ UNCHANGED <<rows, scoresFresh>>
    /\ UNCHANGED <<cls, today, entity, score, runPc, runToday, roster, checksToday,
                   prevRoster, responded, series, advances, regVars, schedVars,
                   persistVars>>

\* wg.Wait() returned (or the sequential loop ended): update the scores, return nil.
CheckAllFinish(r) ==
    /\ runPc[r] = "checking"
    /\ \A e \in roster[r] : worker[r][e] \in Terminal
    /\ \E storeOk \in BOOLEAN :
         /\ score' = IF storeOk THEN UpdateAllScores(rows) ELSE score
         /\ scoresFresh' = IF storeOk THEN TRUE ELSE scoresFresh
    /\ checksToday' = IF runToday[r] = today THEN Completed(checksToday) ELSE checksToday
    /\ prevRoster' = IF runToday[r] = today THEN roster[r] ELSE prevRoster
    /\ runPc' = [runPc EXCEPT ![r] = "idle"]
    /\ roster' = [roster EXCEPT ![r] = {}]
    /\ worker' = [worker EXCEPT ![r] = NoWorkers]
    /\ runToday' = [runToday EXCEPT ![r] = 0]
    /\ UNCHANGED <<cls, today, entity, rows, responded, series, advances, regVars, schedVars,
                   persistVars>>

\* CreateNode / CreateServer: INSERT ... ON CONFLICT (address) DO NOTHING, is_active true.
CreateNode(e) ==
    /\ entity[e] = "absent"
    /\ entity' = [entity EXCEPT ![e] = "active"]

DeleteNodes(e) ==
    /\ entity[e] = "active"
    /\ entity' = [entity EXCEPT ![e] = "absent"]

\* DeactivateNodes / DeactivateServers: UPDATE ... SET is_active = false.
DeactivateNodes(e) ==
    /\ entity[e] = "active"
    /\ entity' = [entity EXCEPT ![e] = "inactive"]

\* The entity table changes while the monitors run (roster sync, approvals).
RosterChange ==
    /\ \E e \in Entities : CreateNode(e) \/ DeactivateNodes(e)
    /\ scoresFresh' = FALSE
    /\ responded' = FALSE
    /\ series' = << >>
    /\ UNCHANGED <<cls, today, score, rows, monVars, advances, regVars, schedVars,
                   persistVars>>

MonNext ==
    \/ \E r \in Runs : CheckAllStart(r)
    \/ \E r \in Runs, e \in Entities : WorkerCheck(r, e)
    \/ \E r \in Runs, e \in Entities : WorkerSave(r, e)
    \/ \E r \in Runs : CheckAllFinish(r)
    \/ RosterChange

(***************************************************************************)
(* Sequential use of the store: one checkAll at a time over several days,  *)
(* and the read path (getWithStatus)                                       *)
(***************************************************************************)

\* Number of times the clock is advanced.
MaxAdvances == 1

\* Steps of the clock, in days: the next day, and across the look-back windows.
DayJumps == {1, 30, 31}

\* getWithStatus asks for the last 30 days.
SeriesDays == 30

RECURSIVE SaveAll(_, _)
\* The upserts of one checkAll, one CreateStatus per probed entity.
SaveAll(tbl, sts) ==
    IF sts = {} THEN tbl
    ELSE LET st == CHOOSE x \in sts : TRUE
         IN  SaveAll(CreateStatus(tbl, st), sts \ {st})

\* One checkAll running alone, from the roster query to the score update.  Per
\* entity the probe is up or down, or a store statement of its checkSingle fails.
CheckAllSerial ==
    /\ \A r \in Runs : runPc[r] = "idle"
    /\ \E outcome \in [Entities -> {"up", "down", "error"}], scoresOk \in BOOLEAN :
         LET probed  == {e \in GetActive :
                            outcome[e] # "error" /\ ~HasStatusForDate(e, today)}
             written == {NewStatus(e, today, outcome[e] = "up") : e \in probed}
             tbl     == SaveAll(rows, written)
         IN  /\ rows' = tbl
             /\ score' = IF scoresOk THEN UpdateAllScores(tbl) ELSE score
             /\ scoresFresh' = IF scoresOk THEN TRUE
                               ELSE IF tbl = rows THEN scoresFresh ELSE FALSE
    /\ checksToday' = Completed(checksToday)
    /\ prevRoster' = GetActive
    /\ responded' = FALSE
    /\ series' = << >>
    /\ UNCHANGED <<cls, today, entity, runPc, runToday, roster, worker, advances,
                   regVars, schedVars,
                   persistVars>>

\* Midnight UTC passes, k times.
AdvanceDays(k) ==
    /\ advances < MaxAdvances
    /\ advances' = advances + 1
    /\ today' = today + k
    /\ checksToday' = 0
    /\ prevRoster' = {}
    /\ scoresFresh' = FALSE
    /\ responded' = FALSE
    /\ series' = << >>
    /\ UNCHANGED <<cls, entity, score, rows, runPc, runToday, roster, worker,
                   regVars, schedVars,
                   persistVars>>

RECURSIVE SortDesc(_)
\* ORDER BY date DESC
SortDesc(S) ==
    IF S = {} THEN << >>
    ELSE LET x == CHOOSE y \in S : \A z \in S : z.date <= y.date
         IN  <<x>> \o SortDesc(S \ {x})

\* Bootstrap and gRPC: the stored rows with date >= CURRENT_DATE - days, newest first.
SparseSeries(e, days) ==
    LET found == {[date |-> x.date, color |-> x.color] :
                     x \in {y \in rows : y.id = e /\ y.date >= today - days}}
    IN  SortDesc(found)

\* JSON-RPC: one item per day from today - (days - 1) to today, colour 0 unless a
\* row of that date exists.
DenseSeries(e, days) ==
    [i \in 1 .. days |->
        LET d == today - (days - i)
            found == {x \in rows : x.id = e /\ x.date = d /\ x.date >= today - (days - 1)}
        IN  [date |-> d,
             color |-> IF found = {} THEN 0 ELSE (CHOOSE x \in found : TRUE).color]]

GetRecentStatuses(e, days) ==
    IF cls = "jsonrpc" THEN DenseSeries(e, days) ELSE SparseSeries(e, days)

\* getWithStatus: the series of every active entity; an entity whose query fails
\* is left out of the response.
GetWithStatus ==
    /\ \E failed \in SUBSET GetActive :
         series' = [e \in GetActive \ failed |-> GetRecentStatuses(e, SeriesDays)]
    /\ responded' = TRUE
    /\ UNCHANGED <<storeVars, monVars, scoresFresh, advances, regVars, schedVars,
                   persistVars>>

RepoNext ==
    \/ CheckAllSerial
    \/ \E k \in DayJumps : AdvanceDays(k)
    \/ RosterChange
    \/ GetWithStatus

\* One checkAll at a time, day after day.
DayNext ==
    \/ CheckAllSerial
    \/ AdvanceDays(1)
    \/ RosterChange

RepoInit ==
    /\ scoresFresh = FALSE
    /\ responded = FALSE
    /\ series = << >>
    /\ advances = 0

(***************************************************************************)
(* Roster sync                                                             *)
(***************************************************************************)

\* Addresses and names (standing for name, email and website) a roster file
\* can hold.
SyncAddrs == {"a1", "a2"}
SyncNames == {"n1", "n2"}

\* Bounds: entries of a roster file, and the values NOW() takes.
MaxSourceLen == 2
MaxNow == 2

NoNode == [name |-> "none", is_active |-> FALSE, updated_at |-> 0]

\* The entries json.Unmarshal can yield: well-formed ones, and ones whose
\* address or name is missing from the file (the zero value "").
SourceEntries ==
    [address : SyncAddrs, name : SyncNames]
      \cup {[address |-> "", name |-> "n1"], [address |-> "a1", name |-> ""]}

\* The addresses a row of the table can have.
TableAddrs == SyncAddrs \cup {""}

\* The files json.Unmarshal can yield: any list of entries, repeats included.
Sources == UNION {[1..n -> SourceEntries] : n \in 0..MaxSourceLen}

\* githubNodesMap / the address list of servers.json: the desired roster.
Desired(src) == {src[i].address : i \in 1..Len(src)}

validateAnything(src) == TRUE

\* BootstrapService.validateNodes: an empty list is refused, and so is a list
\* with an entry whose address or name is empty.
validateNodes(src) ==
    /\ Len(src) > 0
    /\ \A i \in 1..Len(src) : src[i].address # "" /\ src[i].name # ""

shouldUpdateNode(existing, entry) == existing.name # entry.name

\* bootstrapRepository.UpdateNode: UPDATE ... SET name, email, website,
\* updated_at = NOW() WHERE address = $4; is_active is not among the columns.
UpdateNode(tbl, entry, now) ==
    IF tbl[entry.address] = NoNode THEN tbl
    ELSE [tbl EXCEPT ![entry.address].name = entry.name,
                     ![entry.address].updated_at = now]

\* bootstrapRepository.CreateNode as the sync calls it (IsActive: true):
\* INSERT ... ON CONFLICT (address) DO NOTHING.
InsertNode(tbl, entry, now) ==
    IF tbl[entry.address] # NoNode THEN tbl
    ELSE [tbl EXCEPT ![entry.address] =
            [name |-> entry.name, is_active |-> TRUE, updated_at |-> now]]

\* The loop of SyncBootstrapNodesFromFile over the file's entries, in order.
\* current is the table as GetAllNodes read it before the loop; failed holds
\* the entries whose statement the store refuses (logged, then `continue`).
RECURSIVE SyncEntries(_, _, _, _, _, _)
SyncEntries(tbl, current, src, i, failed, now) ==
    IF i > Len(src) THEN tbl
    ELSE LET e == src[i]
             after == IF i \in failed THEN tbl
                      ELSE IF current[e.address] # NoNode
                           THEN IF shouldUpdateNode(current[e.address], e)
                                THEN UpdateNode(tbl, e, now)
                                ELSE tbl
                           ELSE InsertNode(tbl, e, now)
         IN  SyncEntries(after, current, src, i + 1, failed, now)

\* nodesToDeactivate: the rows read before the loop that are active and not
\* in the file.
NodesToDeactivate(current, src) ==
    {a \in TableAddrs : current[a] # NoNode /\ current[a].is_active /\ a \notin Desired(src)}

\* bootstrapRepository.DeactivateNodes:
\* UPDATE ... SET is_active = false, updated_at = NOW() WHERE address = ANY($1)
DeactivateAll(tbl, addrs, now) ==
    [a \in TableAddrs |->
        IF a \in addrs /\ tbl[a] # NoNode
        THEN [tbl[a] EXCEPT !.is_active = FALSE, !.updated_at = now]
        ELSE tbl[a]]

\* BootstrapMonitor.SyncBootstrapNodesFromFile, whole: load and validate the
\* file, read the table, add or update per entry, deactivate what the file
\* dropped (a failure of that statement is only logged), return nil.  The
\* sync returns an error when the file could not be loaded ("unloaded": not
\* read, not parsed, or refused by validateNodes) and when GetAllNodes fails.
SyncBootstrapNodesFromFile ==
    /\ cls = "bootstrap"
    /\ \E loadOk, getOk, deactOk \in BOOLEAN, failed \in SUBSET (1..Len(source)) :
         IF ~(loadOk /\ validateNodes(source))
         THEN /\ nodes' = nodes
              /\ lastSync' = "unloaded"
         ELSE IF ~getOk
         THEN /\ nodes' = nodes
              /\ lastSync' = "failed"
         ELSE LET synced == SyncEntries(nodes, nodes, source, 1, failed, dbNow)
                  drop == NodesToDeactivate(nodes, source)
              IN  /\ nodes' = IF deactOk THEN DeactivateAll(synced, drop, dbNow) ELSE synced
                  /\ lastSync' = IF failed = {} /\ (deactOk \/ drop = {})
                                 THEN "clean" ELSE "errors"
    /\ syncBit' = ~syncBit
    /\ UNCHANGED <<source, dbNow, statusVars, regVars, schedVars, storeVars, monVars, repoVars,
                   outerVars>>

\* GRPCMonitor.addServer: the name is the address;
\* INSERT ... is_active = true ... ON CONFLICT (address) DO NOTHING.
addServer(tbl, address, now) ==
    IF tbl[address] # NoNode THEN tbl
    ELSE [tbl EXCEPT ![address] = [name |-> address, is_active |-> TRUE, updated_at |-> now]]

\* GRPCMonitor.syncNetworkServers over the mainnet list followed by the
\* testnet list: serverExists is asked per address (its error at entry stopAt
\* ends the sync), a missing address is added (a failed insert is logged).
RECURSIVE syncNetworkServers(_, _, _, _, _, _)
syncNetworkServers(tbl, src, i, stopAt, failed, now) ==
    IF i > Len(src) \/ i = stopAt THEN tbl
    ELSE LET a == src[i].address
             after == IF tbl[a] = NoNode /\ i \notin failed THEN addServer(tbl, a, now) ELSE tbl
         IN  syncNetworkServers(after, src, i + 1, stopAt, failed, now)

\* GRPCMonitor.SyncGRPCServersFromFile, whole.
SyncGRPCServersFromFile ==
    /\ cls = "grpc"
    /\ \E loadOk \in BOOLEAN, stopAt \in 0..Len(source), failed \in SUBSET (1..Len(source)) :
         IF ~loadOk
         THEN /\ nodes' = nodes
              /\ lastSync' = "unloaded"
         ELSE /\ nodes' = syncNetworkServers(nodes, source, 1, stopAt, failed, dbNow)
              /\ lastSync' = IF stopAt # 0 THEN "failed"
                             ELSE IF failed = {} THEN "clean" ELSE "errors"
    /\ syncBit' = ~syncBit
    /\ UNCHANGED <<source, dbNow, statusVars, regVars, schedVars, storeVars, monVars, repoVars,
                   outerVars>>

\* The roster file is edited between syncs.
EditSource ==
    /\ \E src \in Sources : src # source /\ source' = src
    /\ lastSync' = "none"
    /\ UNCHANGED <<nodes, syncBit, dbNow, statusVars, regVars, schedVars, storeVars, monVars,
                   repoVars,
                   outerVars>>

\* Time passes at the database.
TimePasses ==
    /\ dbNow < MaxNow
    /\ dbNow' = dbNow + 1
    /\ UNCHANGED <<syncVars, statusVars, regVars, schedVars, storeVars, monVars, repoVars,
                   outerVars>>

SyncNext ==
    \/ SyncBootstrapNodesFromFile
    \/ SyncGRPCServersFromFile
    \/ EditSource
    \/ TimePasses

\* Syncs and edits of the file while the database clock stands still.
LoadNext ==
    \/ SyncBootstrapNodesFromFile
    \/ SyncGRPCServersFromFile
    \/ EditSource

(***************************************************************************)
(* The status upsert with all its columns                                  *)
(***************************************************************************)

\* The payloads CreateStatus is called with: key (entity id, date) and the
\* written columns (error_msg stands for attempts, response_time_ms and
\* blockchain_height too: each is set from EXCLUDED in the same way).
Payloads == [id : {1}, date : {0, 1}, color : {0, 1}, success : BOOLEAN,
             error_msg : {"", "unreachable"}]

NoPayload == [id |-> 0, date |-> 0, color |-> 0, success |-> FALSE, error_msg |-> ""]

StatusRow(st, createdAt) ==
    [id |-> st.id, date |-> st.date, color |-> st.color, success |-> st.success,
     error_msg |-> st.error_msg, created_at |-> createdAt]

\* Mutant of UpsertStatus: INSERT without the ON CONFLICT clause and without
\* the unique constraint behind it.
InsertStatusRow(tbl, st, now, class) == tbl \cup {StatusRow(st, now)}

\* CreateStatus of the three status repositories:
\*   INSERT ... VALUES (..., NOW()) ON CONFLICT (id, date) DO UPDATE SET
\*   <columns> = EXCLUDED.<columns> [, created_at = NOW()]
\* The bootstrap and gRPC statements set created_at on conflict; the JSON-RPC
\* statement does not name it.
UpsertStatus(tbl, st, now, class) ==
    LET old == {x \in tbl : x.id = st.id /\ x.date = st.date} IN
    IF old = {}
    THEN tbl \cup {StatusRow(st, now)}
    ELSE (tbl \ old) \cup
         {StatusRow(st, IF class = "jsonrpc" THEN x.created_at ELSE now) : x \in old}

\* One call of CreateStatus; a store error leaves the table as it was.
CreateStatusCall ==
    /\ \E st \in Payloads, storeOk \in BOOLEAN :
         IF storeOk
         THEN /\ statuses' = UpsertStatus(statuses, st, dbNow, cls)
              /\ lastStatus' = [payload |-> st, again |-> (st = lastStatus.payload)]
         ELSE UNCHANGED <<statuses, lastStatus>>
    /\ createBit' = ~createBit
    /\ UNCHANGED <<dbNow, syncVars, regVars, schedVars, storeVars, monVars, repoVars,
                   outerVars>>

StatusNext ==
    \/ CreateStatusCall
    \/ TimePasses

(***************************************************************************)
(* JSON-RPC facade (phase-2 handler over the phase-1 handler)              *)
(***************************************************************************)

\* The lengths of the batches the model submits.
BatchLens == 0..2

\* Cases of the switch in processRequestPhase2 that call the phase-2 service.
Phase2Methods ==
    {"getJSONRPCNodes", "checkAllJSONRPCNodes", "getJSONRPCNodeCount", "updateGeoLocations",
     "getNetworkStats", "getMapNodes", "getSnapshots", "registerNode",
     "getRegistrationStatus", "getPendingRegistrations", "approveRegistration",
     "rejectRegistration"}

\* Cases of processRequestPhase2 that delegate to JsonRPCHandler.processRequest.
Phase1Delegated ==
    {"getNodes", "getBootstrapNodes", "checkAllNodes", "checkAllBootstrapNodes",
     "getNodeCount", "getBootstrapNodeCount", "syncNodes", "syncBootstrapNodes", "getHealth"}

\* Cases of the switch in JsonRPCHandler.processRequest.
Phase1Methods ==
    Phase1Delegated \cup {"getNetworkStats", "getMapNodes", "updateGeoLocations", "registerNode"}

RpcIds == {1, 2}

\* json.Unmarshal leaves the fields a request does not carry at their zero value.
ZeroParams ==
    [nodeType |-> "", nameLen |-> 0, address |-> "", network |-> "", email |-> "", id |-> 0]

\* RegisterNodeParams as decoded from the request.  A well-shaped registration
\* and the shapes that leave it in one field: the name (kept by its length)
\* at and beyond both ends of 2..255, another network, a malformed email.
\* Address a1 comes in every shape, the other addresses well-shaped.
RegisterParams ==
    LET good == [nameLen |-> 2, network |-> "mainnet", email |-> "ops@node.io"]
        shapes == {good}
                  \cup {[good EXCEPT !.nameLen = n] : n \in {1, 255, 256}}
                  \cup {[good EXCEPT !.network = "devnet"],
                        [good EXCEPT !.email = "not-an-email"]}
        params(t, a, sh) ==
            [ZeroParams EXCEPT !.nodeType = t, !.nameLen = sh.nameLen, !.address = a,
                               !.network = sh.network, !.email = sh.email]
    IN  {params(t, "a1", sh) : t \in NodeTypes, sh \in shapes}
        \cup {params(t, a, good) : t \in NodeTypes, a \in Addrs}

\* JSONRPCRequest: id, method and params.
RpcRequest(i, m, p) == [id |-> i, method |-> m, params |-> p]

\* The bodies of single requests.
SingleRequests ==
    {RpcRequest(1, "registerNode", p) : p \in RegisterParams}
    \cup {RpcRequest(1, "getRegistrationStatus", [ZeroParams EXCEPT !.id = k]) : k \in 1..2}
    \cup {RpcRequest(1, m, ZeroParams) :
            m \in {"getPendingRegistrations", "getNodeCount", "getHealth", "getMapNodes",
                   "getPeers"}}

\* The requests a batch is made of, under either id.
BatchRequests ==
    {RpcRequest(i, "registerNode",
                [ZeroParams EXCEPT !.nodeType = t, !.nameLen = 2, !.address = "a1",
                                   !.network = "mainnet", !.email = "ops@node.io"]) :
        i \in RpcIds, t \in {"grpc", "other"}}
    \cup {RpcRequest(i, "getRegistrationStatus", [ZeroParams EXCEPT !.id = 1]) : i \in RpcIds}
    \cup {RpcRequest(i, m, ZeroParams) :
            i \in RpcIds, m \in {"getNodeCount", "getPeers"}}

\* What the handler's surroundings do during one HTTP request: which addresses
\* answer a probe, and whether the store answers.
RpcEnvs == [reach : SUBSET Addrs, storeOk : BOOLEAN]

\* The validation the binding tags of RegistrationRequest declare:
\*   oneof=grpc jsonrpc, min=2,max=255, oneof=mainnet testnet, email.
\* The tags act only where gin binds the struct.
BindingValid(p) ==
    /\ p.nodeType \in {"grpc", "jsonrpc"}
    /\ p.nameLen >= 2 /\ p.nameLen <= 255
    /\ p.address # ""
    /\ p.network \in {"mainnet", "testnet"}
    /\ p.email = "ops@node.io"

\* The columns of node_registrations: CHECK on node_type, VARCHAR(255) name.
ColumnsAccept(p) ==
    /\ p.nodeType \in {"grpc", "jsonrpc"}
    /\ p.nameLen <= 255

\* registrationRepository.ExistsByAddress over the full rows.
ExistsByAddress(tbl, addr) ==
    \E i \in 1..Len(tbl) : tbl[i].address = addr /\ tbl[i].status # "rejected"

\* registrationRepository.Create: INSERT ... RETURNING id.
Create(tbl, p) ==
    Append(tbl, [nodeType |-> p.nodeType, nameLen |-> p.nameLen, address |-> p.address,
                 network |-> p.network, email |-> p.email, status |-> "pending"])

NoResult == [kind |-> "null", n |-> 0]

\* What a core operation hands back: its result, its error ("" for nil), the
\* table it leaves.
CoreOk(tbl, res) == [result |-> res, err |-> "", table |-> tbl]
CoreErr(tbl, msg) == [result |-> NoResult, err |-> msg, table |-> tbl]

\* RegistrationService.SubmitRegistration, start to end.
SubmitRegistration(tbl, p, env) ==
    IF p.nodeType \notin {"grpc", "jsonrpc"}
    THEN CoreErr(tbl, "failed to validate node: unknown node type")
    ELSE IF ~validateNode(p.nodeType, p.address \in env.reach)
    THEN CoreErr(tbl, "node is not reachable")
    ELSE IF ~env.storeOk
    THEN CoreErr(tbl, "store error")
    ELSE IF checkDuplicate(p.nodeType, p.address)
    THEN CoreErr(tbl, "a node with this address is already registered")
    ELSE IF ExistsByAddress(tbl, p.address)
    THEN CoreErr(tbl, "a registration for this address is already pending")
    ELSE IF ~ColumnsAccept(p)
    THEN CoreErr(tbl, "failed to create registration: store error")
    ELSE CoreOk(Create(tbl, p), [kind |-> "registration", n |-> Len(tbl) + 1])

\* JsonRPCServicePhase2.RegisterNode: the error comes back wrapped
\* (fmt.Errorf("failed to register node: %w", err)).
RegisterNode(tbl, p, env) ==
    LET out == SubmitRegistration(tbl, p, env)
    IN  IF out.err = "" THEN out
        ELSE [out EXCEPT !.err = "failed to register node: " \o out.err]

\* JsonRPCServicePhase2.GetRegistrationStatus
GetRegistrationStatus(tbl, p, env) ==
    IF ~env.storeOk THEN CoreErr(tbl, "failed to get registration: store error")
    ELSE IF p.id \notin 1..Len(tbl) THEN CoreErr(tbl, "registration not found")
    ELSE CoreOk(tbl, [kind |-> "registration", n |-> p.id])

\* JsonRPCServicePhase2.GetPendingRegistrations
GetPendingRegistrations(tbl, env) ==
    IF ~env.storeOk THEN CoreErr(tbl, "failed to get pending registrations: store error")
    ELSE CoreOk(tbl, [kind |-> "list",
                      n |-> Cardinality({i \in 1..Len(tbl) : tbl[i].status = "pending"})])

\* Any other core operation the facade dispatches to: it reads the store, and
\* the store's failure is its error.
OtherCore(tbl, env) ==
    IF ~env.storeOk THEN CoreErr(tbl, "store error") ELSE CoreOk(tbl, [kind |-> "other", n |-> 0])

\* JsonRPCService.GetNodeCount
GetNodeCount(tbl, env) ==
    IF ~env.storeOk THEN CoreErr(tbl, "failed to get node count: store error")
    ELSE CoreOk(tbl, [kind |-> "count", n |-> Cardinality(GetActiveServers("grpc"))])

\* JSONRPCResponse: code 0 stands for a response without an error object.
RpcResult(req, res) == [id |-> req.id, code |-> 0, message |-> "", result |-> res]
RpcError(req, code, msg) == [id |-> req.id, code |-> code, message |-> msg, result |-> NoResult]

\* What processing one request yields: the response, the table, and the core
\* operations that ran.
Processed(resp, tbl, ops) == [response |-> resp, table |-> tbl, ops |-> ops]

\* The tail of both processRequest functions: methodErr becomes -32000.
Respond(req, op, out) ==
    Processed(IF out.err # "" THEN RpcError(req, -32000, out.err)
              ELSE RpcResult(req, out.result),
              out.table, <<[op |-> op, err |-> out.err]>>)

\* JsonRPCHandler.processRequest (the phase-1 switch).
processRequest(tbl, req, env) ==
    IF req.method = "getNodeCount"
    THEN Respond(req, "GetNodeCount", GetNodeCount(tbl, env))
    ELSE IF req.method \in Phase1Methods
    THEN Respond(req, req.method, OtherCore(tbl, env))
    ELSE Processed(RpcError(req, -32601, "Method not found"), tbl, << >>)

\* A dispatcher whose default case reports the unknown method as a failed
\* operation.
processRequestUnknownAsFailure(tbl, req, env) ==
    IF req.method \in Phase2Methods \cup Phase1Delegated
    THEN processRequest(tbl, req, env)
    ELSE Respond(req, req.method, CoreErr(tbl, "Method not found"))

\* JsonRPCHandlerPhase2.processRequestPhase2
processRequestPhase2(tbl, req, env) ==
    IF req.method = "registerNode"
    THEN Respond(req, "RegisterNode", RegisterNode(tbl, req.params, env))
    ELSE IF req.method = "getRegistrationStatus"
    THEN Respond(req, "GetRegistrationStatus", GetRegistrationStatus(tbl, req.params, env))
    ELSE IF req.method = "getPendingRegistrations"
    THEN Respond(req, "GetPendingRegistrations", GetPendingRegistrations(tbl, env))
    ELSE IF req.method \in Phase2Methods
    THEN Respond(req, req.method, OtherCore(tbl, env))
    ELSE IF req.method \in Phase1Delegated
    THEN processRequest(tbl, req, env)
    ELSE Processed(RpcError(req, -32601, "Method not found"), tbl, << >>)

\* A batch loop that gives up at the first failed request.
RECURSIVE handleBatchStopAtError(_, _, _, _, _, _)
handleBatchStopAtError(tbl, reqs, i, responses, ops, env) ==
    IF i > Len(reqs) THEN [responses |-> responses, table |-> tbl, ops |-> ops]
    ELSE LET one == processRequestPhase2(tbl, reqs[i], env)
         IN  IF one.response.code # 0
             THEN [responses |-> Append(responses, one.response), table |-> one.table,
                   ops |-> Append(ops, one.ops)]
             ELSE handleBatchStopAtError(one.table, reqs, i + 1,
                                         Append(responses, one.response),
                                         Append(ops, one.ops), env)

\* JsonRPCHandlerPhase2.handleBatchRequest: responses[i] = processRequestPhase2(requests[i]),
\* in order, each on the table the one before left.
RECURSIVE handleBatchRequest(_, _, _, _, _, _)
handleBatchRequest(tbl, reqs, i, responses, ops, env) ==
    IF i > Len(reqs) THEN [responses |-> responses, table |-> tbl, ops |-> ops]
    ELSE LET one == processRequestPhase2(tbl, reqs[i], env)
         IN  handleBatchRequest(one.table, reqs, i + 1, Append(responses, one.response),
                                Append(ops, one.ops), env)

NoReply == [batch |-> FALSE, requests |-> << >>, responses |-> << >>, ops |-> << >>,
            env |-> [reach |-> {}, storeOk |-> TRUE]]

\* HandleRequest with a body that is one request object.
HandleSingle ==
    /\ \E req \in SingleRequests, env \in RpcEnvs :
         LET one == processRequestPhase2(nodeRegistrations, req, env)
         IN  /\ nodeRegistrations' = one.table
             /\ rpcReply' = [batch |-> FALSE, requests |-> <<req>>,
                             responses |-> <<one.response>>, ops |-> <<one.ops>>,
                             env |-> env]
    /\ UNCHANGED <<innerVars, getVars, parseVars, probeVars, poolVars>>

\* HandleRequest with a body that starts with '[': a batch.
HandleBatch ==
    /\ \E n \in BatchLens, env \in RpcEnvs :
       \E reqs \in [1..n -> BatchRequests] :
         LET all == handleBatchRequest(nodeRegistrations, reqs, 1, << >>, << >>, env)
         IN  /\ nodeRegistrations' = all.table
             /\ rpcReply' = [batch |-> TRUE, requests |-> reqs,
                             responses |-> all.responses, ops |-> all.ops, env |-> env]
    /\ UNCHANGED <<innerVars, getVars, parseVars, probeVars, poolVars>>

\* One request per HTTP call.
RpcNext == HandleSingle

\* Batches only.
BatchNext == HandleBatch

(***************************************************************************)
(* Single-row getters of the repositories                                  *)
(***************************************************************************)

Repos == {"bootstrap", "grpc", "jsonrpc", "registration"}
RowKeys == {1, 2}

\* db.QueryRowContext(...).Scan(...): the row, sql.ErrNoRows, or another error.
QueryRow(tbl, key, storeOk) ==
    IF ~storeOk THEN "error" ELSE IF key \in tbl THEN "row" ELSE "ErrNoRows"

\* A getter returns the row (here its key; 0 for nil) and the error ("" for
\* nil).  The getters that end in `if err == sql.ErrNoRows { return nil, nil }`:
NilWhenMissing(scan, key, errText) ==
    IF scan = "ErrNoRows" THEN [value |-> 0, err |-> ""]
    ELSE IF scan = "error" THEN [value |-> 0, err |-> errText]
    ELSE [value |-> key, err |-> ""]

\* The getters that end in `if err == sql.ErrNoRows { return nil, fmt.Errorf(...) }`.
ErrorWhenMissing(scan, key, missingText, errText) ==
    IF scan = "ErrNoRows" THEN [value |-> 0, err |-> missingText]
    ELSE IF scan = "error" THEN [value |-> 0, err |-> errText]
    ELSE [value |-> key, err |-> ""]

\* bootstrapRepository.GetNodeByID
GetNodeByID(tbl, id, storeOk) ==
    ErrorWhenMissing(QueryRow(tbl, id, storeOk), id, "node not found", "get node by id")

\* bootstrapRepository.GetNodeByAddress
GetNodeByAddress(tbl, a, storeOk) ==
    NilWhenMissing(QueryRow(tbl, a, storeOk), a, "get node by address")

\* grpcRepository.GetServerByID
GetServerByID(tbl, id, storeOk) ==
    ErrorWhenMissing(QueryRow(tbl, id, storeOk), id, "server not found", "get server by id")

\* grpcRepository.GetServerByAddress
GetServerByAddress(tbl, a, storeOk) ==
    NilWhenMissing(QueryRow(tbl, a, storeOk), a, "get server by address")

\* jsonrpcServerRepository.GetServerByID
JsonrpcGetServerByID(tbl, id, storeOk) ==
    NilWhenMissing(QueryRow(tbl, id, storeOk), id, "get server by id")

\* jsonrpcServerRepository.GetServerByAddress
JsonrpcGetServerByAddress(tbl, a, storeOk) ==
    NilWhenMissing(QueryRow(tbl, a, storeOk), a, "get server by address")

\* registrationRepository.GetByID
GetByID(tbl, id, storeOk) ==
    NilWhenMissing(QueryRow(tbl, id, storeOk), id, "get registration by id")

\* The getters of each repository.
Getters == {<<"bootstrap", "id">>, <<"bootstrap", "address">>, <<"grpc", "id">>,
            <<"grpc", "address">>, <<"jsonrpc", "id">>, <<"jsonrpc", "address">>,
            <<"registration", "id">>}

Getter(g, tbl, key, storeOk) ==
    CASE g = <<"bootstrap", "id">> -> GetNodeByID(tbl, key, storeOk)
      [] g = <<"bootstrap", "address">> -> GetNodeByAddress(tbl, key, storeOk)
      [] g = <<"grpc", "id">> -> GetServerByID(tbl, key, storeOk)
      [] g = <<"grpc", "address">> -> GetServerByAddress(tbl, key, storeOk)
      [] g = <<"jsonrpc", "id">> -> JsonrpcGetServerByID(tbl, key, storeOk)
      [] g = <<"jsonrpc", "address">> -> JsonrpcGetServerByAddress(tbl, key, storeOk)
      [] g = <<"registration", "id">> -> GetByID(tbl, key, storeOk)

NoGet == [repo |-> "none", by |-> "none", key |-> 0, existed |-> FALSE, storeOk |-> TRUE,
          value |-> 0, err |-> ""]

\* A row is inserted into one of the tables.
StoreRow ==
    /\ \E r \in Repos, k \in RowKeys :
         /\ k \notin stored[r]
         /\ stored' = [stored EXCEPT ![r] = @ \cup {k}]
    /\ UNCHANGED <<lastGet, innerVars, rpcVars, parseVars, probeVars, poolVars>>

\* One call of a getter.
GetterCall ==
    /\ \E g \in Getters, k \in RowKeys, storeOk \in BOOLEAN :
         LET got == Getter(g, stored[g[1]], k, storeOk)
         IN  lastGet' = [repo |-> g[1], by |-> g[2], key |-> k, existed |-> k \in stored[g[1]],
                         storeOk |-> storeOk, value |-> got.value, err |-> got.err]
    /\ UNCHANGED <<stored, innerVars, rpcVars, parseVars, probeVars, poolVars>>

GetNext ==
    \/ StoreRow
    \/ GetterCall

(***************************************************************************)
(* Probes: TCP (NodeChecker), gRPC (GRPCChecker), JSON-RPC                 *)
(***************************************************************************)

\* Longest address, in parts, the parser is given.
MaxParts == 6

\* An address is kept as strings.Split(address, "/") has it: a non-empty
\* sequence of parts ("" before a leading slash).
PartTokens == {"", "dns", "dns4", "ip4", "tcp", "h", "p"}

AddressInputs == UNION {[1..n -> PartTokens] : n \in 1..MaxParts}

\* The part after the last part of the loop's range that is one of keys; ""
\* when there is none.
LastAfter(parts, keys) ==
    LET at == {j \in 1..(Len(parts) - 1) : parts[j] \in keys}
    IN  IF at = {} THEN ""
        ELSE parts[(CHOOSE j \in at : \A k \in at : k <= j) + 1]

Parsed(host, port, err) == [host |-> host, port |-> port, err |-> err]

\* NodeChecker.parseAddress
parseAddress(parts) ==
    IF Len(parts) < 5 THEN Parsed("", "", "invalid address format")
    ELSE LET host == LastAfter(parts, {"dns", "ip4", "ip6"})
             port == LastAfter(parts, {"tcp"})
         IN  IF host = "" \/ port = ""
             THEN Parsed("", "", "could not extract host and port from address")
             ELSE Parsed(host, port, "")

NotParsed == Parsed("", "", "not called")

\* One call of parseAddress on the given address.
ParseCall ==
    /\ parseOut = NotParsed
    /\ parseOut' = parseAddress(parseIn)
    /\ UNCHANGED <<parseIn, innerVars, rpcVars, getVars, probeVars, poolVars>>

ParseNext == ParseCall

\* Largest configured maxRetries of the model.
MaxRetries == 3

\* ValidateJSONRPCEndpoint: for i := 0; i < 5; i++
jsonrpcAttempts == 5

ProbeKinds == {"tcp", "grpc", "jsonrpc"}

\* Addresses handed to a probe: two that parse, two that do not.
ProbeAddresses ==
    {<<"", "dns", "h", "tcp", "p", "p2p">>, <<"", "ip4", "h", "tcp", "p">>,
     <<"invalid-address">>, <<"">>}

NoProbe == [kind |-> "none", address |-> <<"">>, maxRetries |-> 0, pc |-> "idle",
            ctx |-> "live", attempt |-> 0, success |-> FALSE, attempts |-> 0,
            errorMsg |-> "", dials |-> 0]

\* Entry of a probe whatever the address.
ProbeEnter(kind, address, m) ==
    [NoProbe EXCEPT !.kind = kind, !.address = address, !.pc = "top", !.attempt = 1,
                    !.maxRetries = IF kind = "jsonrpc" THEN jsonrpcAttempts ELSE m,
                    !.attempts = IF kind = "jsonrpc" THEN jsonrpcAttempts ELSE 0]

\* A probe entry that goes on to the retry loop without looking at the
\* parser's error.
CheckNodeUnparsed(kind, address, m) == ProbeEnter(kind, address, m)

\* Entry of CheckNode: parse first, return on a parse error.  The other two
\* probes take the address as it is.
CheckNodeEnter(kind, address, m) ==
    IF kind = "tcp" /\ parseAddress(address).err # ""
    THEN [NoProbe EXCEPT !.kind = kind, !.address = address, !.maxRetries = m, !.pc = "done",
                         !.errorMsg = "failed to parse address"]
    ELSE ProbeEnter(kind, address, m)

\* A probe is called with a fresh context.
ProbeStart ==
    /\ probe.pc \in {"idle", "done"}
    /\ \E kind \in ProbeKinds, address \in ProbeAddresses, m \in 1..MaxRetries :
         probe' = CheckNodeEnter(kind, address, m)
    /\ UNCHANGED <<innerVars, rpcVars, getVars, parseVars, poolVars>>

\* Top of the retry loop: leave it after maxRetries attempts, else start the
\* next attempt (attemptConnection / attemptGRPCPing / httpClient.Do).
StartAttempt ==
    /\ probe.pc = "top"
    /\ probe' = IF probe.attempt > probe.maxRetries
                THEN [probe EXCEPT !.pc = "done",
                                   !.errorMsg = IF probe.kind = "tcp"
                                                THEN "failed to connect after maxRetries attempts"
                                                ELSE @]
                ELSE [probe EXCEPT !.pc = "dialing", !.dials = @ + 1,
                                   !.attempts = IF probe.kind = "jsonrpc" THEN @
                                                ELSE probe.attempt]
    /\ UNCHANGED <<innerVars, rpcVars, getVars, parseVars, poolVars>>

\* The attempt returns; under a cancelled context it fails.  After a failure
\* the loop sleeps (time.Sleep) when another attempt follows; the JSON-RPC
\* probe sleeps after every failure.
DialReturns ==
    /\ probe.pc = "dialing"
    /\ \E ok \in BOOLEAN :
         /\ probe.ctx = "cancelled" => ~ok
         /\ probe' = IF ok THEN [probe EXCEPT !.pc = "done", !.success = TRUE]
                     ELSE [probe EXCEPT
                             !.errorMsg = IF probe.kind = "tcp" THEN @ ELSE "attempt failed",
                             !.pc = IF probe.kind = "jsonrpc" \/ probe.attempt < probe.maxRetries
                                    THEN "sleeping" ELSE "top",
                             !.attempt = IF probe.kind = "jsonrpc"
                                            \/ probe.attempt < probe.maxRetries
                                         THEN @ ELSE @ + 1]
    /\ UNCHANGED <<innerVars, rpcVars, getVars, parseVars, poolVars>>

\* time.Sleep returns: next iteration.
SleepEnds ==
    /\ probe.pc = "sleeping"
    /\ probe' = [probe EXCEPT !.pc = "top", !.attempt = @ + 1]
    /\ UNCHANGED <<innerVars, rpcVars, getVars, parseVars, poolVars>>

\* The caller's context is cancelled while the probe runs.
ProbeCancel ==
    /\ probe.pc \notin {"idle", "done"}
    /\ probe.ctx = "live"
    /\ probe' = [probe EXCEPT !.ctx = "cancelled"]
    /\ UNCHANGED <<innerVars, rpcVars, getVars, parseVars, poolVars>>

ProbeNext ==
    \/ ProbeStart
    \/ StartAttempt
    \/ DialReturns
    \/ SleepEnds
    \/ ProbeCancel

(***************************************************************************)
(* checkAll as a worker pool: one invocation over a roster of any size     *)
(***************************************************************************)

\* Largest roster of the pool model.
MaxRoster == 12

NoPool == [pc |-> "idle", ctx |-> "live", n |-> 0, waiting |-> 0, inflight |-> 0, ok |-> 0,
           failed |-> 0, cancelledEarly |-> FALSE, scores |-> "none", ret |-> "none"]

\* No semaphore: every worker runs at once.
NoSemaphore == pool.n + 1

\* BootstrapMonitor and JSONRPCMonitorService run their workers behind a
\* semaphore of maxConcurrent slots and pass ctx to the store; GRPCMonitor
\* loops over its servers one at a time and its store calls take no ctx.
Slots == IF cls = "grpc" THEN 1 ELSE maxConcurrent

StoreHonoursCtx == cls # "grpc"

\* Entry of checkAll: load the roster (an error is returned at once), spawn
\* one worker per entity.
PoolStart ==
    /\ pool.pc \in {"idle", "returned"}
    /\ \E n \in 0..MaxRoster, storeOk \in BOOLEAN :
         pool' = IF storeOk THEN [NoPool EXCEPT !.pc = "running", !.n = n, !.waiting = n]
                 ELSE [NoPool EXCEPT !.pc = "returned", !.ret = "error"]
    /\ UNCHANGED <<innerVars, rpcVars, getVars, parseVars, probeVars>>

\* semaphore <- struct{}{}: a worker takes a free slot and starts checkSingle.
Acquire ==
    /\ pool.pc = "running"
    /\ pool.waiting > 0
    /\ pool.inflight < Slots
    /\ pool' = [pool EXCEPT !.waiting = @ - 1, !.inflight = @ + 1]
    /\ UNCHANGED <<innerVars, rpcVars, getVars, parseVars, probeVars>>

\* checkSingle returns, with an error or without; the deferred release and
\* wg.Done run either way.
WorkerDone(err) ==
    [pool EXCEPT !.inflight = @ - 1,
                 !.ok = IF err THEN @ ELSE @ + 1,
                 !.failed = IF err THEN @ + 1 ELSE @]

\* checkSingle ends.  Where the store calls take ctx, a cancelled ctx fails
\* them and checkSingle returns the error.
Release ==
    /\ pool.pc = "running"
    /\ pool.inflight > 0
    /\ \E err \in BOOLEAN :
         /\ (StoreHonoursCtx /\ pool.ctx = "cancelled") => err
         /\ pool' = WorkerDone(err)
    /\ UNCHANGED <<innerVars, rpcVars, getVars, parseVars, probeVars>>

\* The context of the invocation is cancelled (shutdown, job timeout).
PoolCancel ==
    /\ pool.pc = "running"
    /\ pool.ctx = "live"
    /\ pool' = [pool EXCEPT !.ctx = "cancelled",
                            !.cancelledEarly = (pool.waiting + pool.inflight > 0)]
    /\ UNCHANGED <<innerVars, rpcVars, getVars, parseVars, probeVars>>

\* A return that hands the failure of the score update to the caller.
ReturnScoreError(scoresOk) == IF scoresOk THEN "nil" ELSE "error"

\* return nil, whatever UpdateAllScores and the workers reported.
ReturnNil(scoresOk) == "nil"

\* wg.Wait() returned (the loop ended): UpdateAllScores is called, its error
\* is logged, checkAll returns nil.
PoolFinish ==
    /\ pool.pc = "running"
    /\ pool.waiting = 0 /\ pool.inflight = 0
    /\ \E scoresOk \in BOOLEAN :
         /\ (StoreHonoursCtx /\ pool.ctx = "cancelled") => ~scoresOk
         /\ pool' = [pool EXCEPT !.pc = "returned",
                                 !.scores = IF scoresOk THEN "updated" ELSE "failed",
                                 !.ret = ReturnNil(scoresOk)]
    /\ UNCHANGED <<innerVars, rpcVars, getVars, parseVars, probeVars>>

PoolNext ==
    \/ PoolStart
    \/ Acquire
    \/ Release
    \/ PoolCancel
    \/ PoolFinish

(***************************************************************************)
(* Geo location cache                                                      *)
(***************************************************************************)

Ips == {"ip1", "ip2"}

Locations == {"loc1", "loc2"}

\* Clock of the model, in days.
MaxGeoNow == 8

\* cacheTTL: 7 * 24 * time.Hour.
cacheTTL == 7

NoEntry == [location |-> "none", cachedAt |-> 0]

NoLookup == [location |-> "none", err |-> FALSE]

\* NewGeoLocationService: an empty cache.
NewGeoLocationService ==
    [cache |-> [ip \in Ips |-> NoEntry], now |-> 0, pc |-> "idle", ip |-> "ip1",
     called |-> FALSE, ret |-> NoLookup, bit |-> FALSE]

CacheFreshForever(ip) == geo.cache[ip] # NoEntry

\* GetLocation, the test under the read lock:
\*   cached, ok := s.cache[ip]; ok && time.Since(cached.CachedAt) < s.cacheTTL
CacheFresh(ip) ==
    /\ geo.cache[ip] # NoEntry
    /\ geo.now - geo.cache[ip].cachedAt < cacheTTL

\* GetLocation up to the end of the cache check: a fresh entry is returned at
\* once, otherwise the call goes on to the API.
GetLocationBegin ==
    /\ geo.pc = "idle"
    /\ \E ip \in Ips :
         geo' = IF CacheFresh(ip)
                THEN [geo EXCEPT !.ip = ip, !.called = FALSE, !.bit = ~geo.bit,
                                 !.ret = [location |-> geo.cache[ip].location,
                                          err |-> FALSE]]
                ELSE [geo EXCEPT !.ip = ip, !.called = FALSE, !.pc = "fetch",
                                 !.ret = NoLookup]
    /\ UNCHANGED <<coreVars, facadeVars, limiter, inTimeout>>

\* GetLocation from the API request on: a failed request, an undecodable body
\* or a status other than "success" return an error before the cache is
\* touched; a success is stored under the write lock with time.Now().
GetLocationFetch ==
    /\ geo.pc = "fetch"
    /\ \E out \in Locations \cup {"fail"} :
         geo' = IF out = "fail"
                THEN [geo EXCEPT !.pc = "idle", !.called = TRUE, !.bit = ~geo.bit,
                                 !.ret = [location |-> "none", err |-> TRUE]]
                ELSE [geo EXCEPT !.pc = "idle", !.called = TRUE, !.bit = ~geo.bit,
                                 !.cache[geo.ip] = [location |-> out, cachedAt |-> geo.now],
                                 !.ret = [location |-> out, err |-> FALSE]]
    /\ UNCHANGED <<coreVars, facadeVars, limiter, inTimeout>>

\* A day passes.
GeoTimePasses ==
    /\ geo.now < MaxGeoNow
    /\ geo' = [geo EXCEPT !.now = geo.now + 1]
    /\ UNCHANGED <<coreVars, facadeVars, limiter, inTimeout>>

GeoNext ==
    \/ GetLocationBegin
    \/ GetLocationFetch
    \/ GeoTimePasses

(***************************************************************************)
(* Rate limiter middleware                                                 *)
(***************************************************************************)

\* NewRateLimiter(limit, window, logger): the limit, scaled down.
limit == 2

\* The window (time.Minute) is the unit of the limiter's clock.
window == 1

\* Clock of the limiter.
MaxLimNow == 3

\* ClientRateLimit objects allocated for the one client IP under analysis.
MaxClients == 2

\* Concurrent requests of that client.
Requests == {1, 2}

\* NewRateLimiter: an empty map.  clients is the object the map holds for the
\* client IP (0: no entry); obj are the ClientRateLimit values ever allocated;
\* holds is the pointer a request took from the map; admitted counts the
\* requests let through at each instant.
NewRateLimiter ==
    [clients |-> 0, allocated |-> 0,
     obj |-> [o \in 1..MaxClients |-> [count |-> 0, lastReset |-> 0]],
     holds |-> [r \in Requests |-> 0],
     now |-> 0, sweeps |-> 0,
     admitted |-> [t \in 0..MaxLimNow |-> 0]]

\* allowRequest, the part under rl.mu: look the client up, create it if missing.
allowRequestLookup(r) ==
    /\ limiter.holds[r] = 0
    /\ IF limiter.clients # 0
       THEN limiter' = [limiter EXCEPT !.holds[r] = limiter.clients]
       ELSE /\ limiter.allocated < MaxClients
            /\ LET o == limiter.allocated + 1 IN
               limiter' = [limiter EXCEPT
                              !.allocated = o, !.clients = o, !.holds[r] = o,
                              !.obj[o] = [count |-> 0, lastReset |-> limiter.now]]
    /\ UNCHANGED <<coreVars, facadeVars, geo, inTimeout>>

\* allowRequest, the part under client.mu: reset the window when it has run
\* out, refuse at the limit, count the request otherwise.
allowRequestDecide(r) ==
    /\ limiter.holds[r] # 0
    /\ LET o     == limiter.holds[r]
           reset == limiter.now - limiter.obj[o].lastReset > window
           c     == IF reset THEN 0 ELSE limiter.obj[o].count
           lr    == IF reset THEN limiter.now ELSE limiter.obj[o].lastReset
           allow == ~(c >= limit)
       IN  limiter' = [limiter EXCEPT
                          !.holds[r] = 0,
                          !.obj[o] = [count |-> IF allow THEN c + 1 ELSE c,
                                      lastReset |-> lr],
                          !.admitted[limiter.now] = IF allow THEN @ + 1 ELSE @]
    /\ UNCHANGED <<coreVars, facadeVars, geo, inTimeout>>

\* cleanup, one tick of the ticker (period 2 * window; a tick nobody waits for
\* is dropped): entries whose lastReset is older than 2 * window leave the map.
cleanup ==
    /\ limiter.sweeps < limiter.now \div (2 * window)
    /\ limiter' = [limiter EXCEPT
                      !.sweeps = @ + 1,
                      !.clients =
                          IF /\ limiter.clients # 0
                             /\ limiter.now - limiter.obj[limiter.clients].lastReset
                                    > window * 2
                          THEN 0 ELSE @]
    /\ UNCHANGED <<coreVars, facadeVars, geo, inTimeout>>

LimitTimePasses ==
    /\ limiter.now < MaxLimNow
    /\ limiter' = [limiter EXCEPT !.now = @ + 1]
    /\ UNCHANGED <<coreVars, facadeVars, geo, inTimeout>>

LimitNext ==
    \/ \E r \in Requests : allowRequestLookup(r)
    \/ \E r \in Requests : allowRequestDecide(r)
    \/ cleanup
    \/ LimitTimePasses

(***************************************************************************)
(* Timeout middleware                                                      *)
(***************************************************************************)

\* HTTP requests passing through the middleware at once.
HttpRequests == {1, 2, 3}

\* Timeout, up to the select: the context with its timer is made, the
\* unbuffered channel finished is made, and the goroutine running c.Next() is
\* started.
TimeoutEnter ==
    [r \in HttpRequests |-> [mw |-> "select", handler |-> "running", ctxDone |-> FALSE]]

\* c.Next() returns in the goroutine, which goes on to `finished <- struct{}{}`.
HandlerReturns(r) ==
    /\ inTimeout[r].handler = "running"
    /\ inTimeout' = [inTimeout EXCEPT ![r].handler = "sending"]
    /\ UNCHANGED <<coreVars, facadeVars, geo, limiter>>

\* The timer of ctx fires (or the request's own context is cancelled).
CtxDone(r) ==
    /\ ~inTimeout[r].ctxDone
    /\ inTimeout' = [inTimeout EXCEPT ![r].ctxDone = TRUE]
    /\ UNCHANGED <<coreVars, facadeVars, geo, limiter>>

\* A send on an unbuffered channel completes together with a receive: the
\* select takes `case <-finished`, the middleware returns and the goroutine
\* ends.
SelectFinished(r) ==
    /\ inTimeout[r].mw = "select"
    /\ inTimeout[r].handler = "sending"
    /\ inTimeout' = [inTimeout EXCEPT ![r].mw = "returned", ![r].handler = "done"]
    /\ UNCHANGED <<coreVars, facadeVars, geo, limiter>>

\* The select takes `case <-ctx.Done()`: the middleware logs, answers 504 and
\* returns; nothing receives from finished after that.
SelectCtxDone(r) ==
    /\ inTimeout[r].mw = "select"
    /\ inTimeout[r].ctxDone
    /\ inTimeout' = [inTimeout EXCEPT ![r].mw = "returned504"]
    /\ UNCHANGED <<coreVars, facadeVars, geo, limiter>>

TimeoutNext ==
    \E r \in HttpRequests :
        \/ HandlerReturns(r)
        \/ CtxDone(r)
        \/ SelectFinished(r)
        \/ SelectCtxDone(r)

PersistInit ==
    /\ inTimeout = TimeoutEnter
    /\ geo = NewGeoLocationService
    /\ limiter = NewRateLimiter
    /\ probe = NoProbe
    /\ pool = NoPool
    /\ parseOut = NotParsed
    /\ stored = [r \in Repos |-> {}]
    /\ lastGet = NoGet
    /\ nodeRegistrations = << >>
    /\ rpcReply = NoReply
    /\ dbNow = 0
    /\ nodes = [a \in TableAddrs |-> NoNode]
    /\ source = << >>
    /\ lastSync = "none"
    /\ syncBit = FALSE
    /\ statuses = {}
    /\ lastStatus = [payload |-> NoPayload, again |-> FALSE]
    /\ createBit = FALSE

\* Everything but the address parseAddress is given.
InitButAddress == RegInit /\ SchedInit /\ StoreInit /\ MonInit /\ RepoInit /\ PersistInit

Init == InitButAddress /\ parseIn = <<"">>

\* The registration pipeline and the scheduler never read the monitored store:
\* one class stands for all.
InitOneClass == Init /\ cls = "bootstrap"

SpecReg == InitOneClass /\ [][RegNext]_vars

SpecSched == InitOneClass /\ [][SchedNext]_vars

SpecMon == Init /\ [][MonNext]_vars

SpecDay == Init /\ [][DayNext]_vars

SpecRepo == Init /\ [][RepoNext]_vars

\* The monitor variants that sync a roster from a file.
InitSync == Init /\ cls \in {"bootstrap", "grpc"}

SpecSync == InitSync /\ [][SyncNext]_vars

SpecLoad == InitSync /\ [][LoadNext]_vars

SpecStatus == Init /\ [][StatusNext]_vars

SpecRpc == InitOneClass /\ [][RpcNext]_vars

SpecBatch == InitOneClass /\ [][BatchNext]_vars

SpecGet == InitOneClass /\ [][GetNext]_vars

\* parseAddress over every address of the bounded set.
InitParse == InitButAddress /\ cls = "bootstrap" /\ parseIn \in AddressInputs

SpecParse == InitParse /\ [][ParseNext]_vars

SpecProbe == InitOneClass /\ [][ProbeNext]_vars

SpecPool == Init /\ [][PoolNext]_vars

SpecGeo == InitOneClass /\ [][GeoNext]_vars

SpecLimit == InitOneClass /\ [][LimitNext]_vars

SpecTimeout == InitOneClass /\ [][TimeoutNext]_vars

\* The Go scheduler runs every runnable goroutine, and a probe ends after
\* its bounded attempts: a worker that can take a slot takes one, a running
\* checkSingle returns, and checkAll goes on once wg.Wait() returns.
SpecPoolFair ==
    SpecPool /\ WF_vars(Acquire) /\ WF_vars(Release) /\ WF_vars(PoolFinish)

(***************************************************************************)
(* Monitor and store claims                                                *)
(***************************************************************************)

RowsFor(e, d) == {x \in rows : x.id = e /\ x.date = d}

\* C1 (as stated): when two checkAll invocations run in parallel against the same
\* roster on the same day, no entity is probed and upserted by both of them.
C1_Original ==
    \A e \in Entities : \A r1, r2 \in Runs :
        (/\ r1 # r2
         /\ runPc[r1] = "checking" /\ runPc[r2] = "checking"
         /\ roster[r1] = roster[r2] /\ runToday[r1] = runToday[r2]
         /\ worker[r1][e] = "wrote")
        => worker[r2][e] # "wrote"

\* C1 (amended): parallel invocations may both upsert the same entity, but the
\* table never holds more than one row per entity and day: each upsert leaves
\* exactly the row it wrote for its key and touches no other key.
C1_OneRowPerEntityDay ==
    /\ [](\A x, y \in rows : (x.id = y.id /\ x.date = y.date) => x = y)
    /\ [][\A r \in Runs, e \in Entities :
            (worker[r][e] = "probing" /\ worker'[r][e] = "wrote")
            => /\ Cardinality({x \in rows' : x.id = e /\ x.date = runToday[r]}) = 1
               /\ \A x \in rows : (x.id # e \/ x.date # runToday[r]) => x \in rows'
               /\ \A x \in rows' : (x.id # e \/ x.date # runToday[r]) => x \in rows]_vars

C1_Witness ==
    \E e \in Entities : \E r1, r2 \in Runs :
        /\ r1 # r2
        /\ roster[r1] = roster[r2] /\ runToday[r1] = runToday[r2]
        /\ worker[r1][e] = "wrote" /\ worker[r2][e] = "wrote"
        /\ Cardinality(RowsFor(e, runToday[r1])) = 1

\* C7: in every daily status row a monitor wrote, success implies color >= 1,
\* failure implies color = 0, and the color is never 2.
C7_ColorMatchesSuccess ==
    \A x \in rows :
        /\ x.success => x.color >= 1
        /\ ~x.success => x.color = 0
        /\ x.color # 2

C7_Witness ==
    /\ \E r \in Runs, e \in Entities : worker[r][e] = "wrote"
    /\ \E x \in rows : x.success
    /\ \E x \in rows : ~x.success

RowsDated(d) == {x \in rows : x.date = d}

\* A step that completes the second checkAll of the current day, run against
\* the roster the first one had.
IsSecondCheck == checksToday = 1 /\ checksToday' = 2 /\ prevRoster' = prevRoster

\* C6 (as stated): a second checkAll on the same UTC day leaves the number of
\* status rows dated today unchanged.
C6_Original ==
    [][IsSecondCheck => Cardinality({x \in rows' : x.date = today}) = Cardinality(RowsDated(today))]_vars

\* C6 (amended): a checkAll never probes or rewrites an entity that already has
\* a row for today; the rows it adds are today's rows of active entities that
\* had none, so the day's row count is unchanged when every active entity was
\* already recorded.
C6_RecordedNotRewritten ==
    [][/\ \A x \in rows : x \in rows'
       /\ \A x \in rows' \ rows :
            x.date = today /\ entity[x.id] = "active" /\ RowsFor(x.id, today) = {}
       /\ (\A e \in Entities : entity[e] = "active" => RowsFor(e, today) # {})
            => Cardinality({x \in rows' : x.date = today}) = Cardinality(RowsDated(today))]_vars

C6_Witness ==
    /\ checksToday = 2
    /\ prevRoster = {e \in Entities : entity[e] = "active"}
    /\ \E e \in Entities : entity[e] = "active"
    /\ \A e \in Entities : entity[e] = "active" => RowsFor(e, today) # {}

\* h is the percentage s / n rounded to two decimals, in hundredths; 0 when n = 0.
IsPercentOf(h, s, n) ==
    IF n = 0 THEN h = 0
    ELSE 2 * h * n <= 20000 * s + n /\ 20000 * s + n < 2 * (h + 1) * n

\* C8 (as stated): after updateAllScores has run, the score of every active
\* entity lies in [0, 100] and is the percentage, rounded to two decimals, of
\* the rows with success among its rows dated within the last 30 days; it is 0
\* when the entity has no such row.
C8_Original ==
    scoresFresh =>
        \A e \in Entities : entity[e] = "active" =>
            LET win == {x \in rows : x.id = e /\ x.date >= today - 30}
            IN  /\ score[e] \in 0 .. 10000
                /\ IsPercentOf(score[e], Cardinality({x \in win : x.success}),
                               Cardinality(win))

\* C9 (as stated): every series getWithStatus returns has exactly 30 items, one
\* per day in ascending order, the last one dated today, with color 0 for the
\* days without a row.
C9_Original ==
    responded =>
        \A e \in DOMAIN series :
            LET s == series[e]
            IN  /\ Len(s) = 30
                /\ \A i \in 1 .. 29 : s[i + 1].date = s[i].date + 1
                /\ s[30].date = today
                /\ \A i \in 1 .. 30 : RowsFor(e, s[i].date) = {} => s[i].color = 0

(***************************************************************************)
(* Scheduler claims                                                        *)
(***************************************************************************)

\* A step is a tick of job j exactly when j's tick bit flips.
IsTick(j) == tickBit'[j] # tickBit[j]

\* C3: for every job at most one invocation is in flight; a tick that fires
\* while an invocation of the same job is in flight is skipped and leaves no
\* trace (an invocation only ever starts in a tick step), and a tick of a job
\* with nothing in flight starts it whatever the other jobs are doing.
C3_OverlapSuppression ==
    /\ [](\A j \in Jobs : inflight[j] <= 1)
    /\ [][\A j \in Jobs :
            /\ IsTick(j) =>
                 IF inflight[j] > 0
                 THEN /\ lastTick'[j] = "skipped"
                      /\ inflight'[j] = inflight[j]
                      /\ jobPc'[j] = jobPc[j]
                 ELSE /\ lastTick'[j] = "ran"
                      /\ inflight'[j] = 1
            /\ inflight'[j] > inflight[j] => IsTick(j)]_vars

\* C3 witness: a tick of one job was skipped while its invocation is in
\* flight, and the other job's tick ran.
C3_Witness ==
    \E j, k \in Jobs :
        /\ j # k
        /\ lastTick[j] = "skipped" /\ jobPc[j] = "running"
        /\ lastTick[k] = "ran" /\ jobPc[k] = "running"

\* The tick half of C4: a tick is skipped exactly when it overlaps an
\* invocation of the same job that is still in flight.
SkippedOnlyOnOverlap ==
    \A j \in Jobs : IsTick(j) => (lastTick'[j] = "skipped" <=> inflight[j] > 0)

\* C4 as stated: a run that exceeds jobTimeout has a context that reports
\* deadline exceeded, and a tick is skipped only when it overlaps a run in
\* flight.
C4_Original ==
    /\ [](\A j \in Jobs : jobPc[j] = "running" /\ pastDeadline[j] => ctxErr[j] = "deadline")
    /\ [][SkippedOnlyOnOverlap]_vars

\* C4 amended: a run that exceeds jobTimeout has a cancelled context, which
\* reports deadline exceeded unless the scheduler's shutdown cancelled it
\* first (then it reports canceled, and keeps doing so); a context that
\* reports deadline exceeded keeps doing so for the rest of the run; and a
\* tick is skipped exactly when it overlaps a run in flight.
C4_DeadlineAndTicks ==
    /\ [](\A j \in Jobs :
            jobPc[j] = "running" /\ pastDeadline[j] =>
                /\ ctxErr[j] \in {"deadline", "canceled"}
                /\ ~shutdown => ctxErr[j] = "deadline")
    /\ [][\A j \in Jobs :
            /\ jobPc[j] = "running" /\ jobPc'[j] = "running" /\ ctxErr[j] # "none"
                 => ctxErr'[j] = ctxErr[j]
            /\ IsTick(j) => (lastTick'[j] = "skipped" <=> inflight[j] > 0)]_vars

\* C4 witness: the previous run of a job was logged as timed out, and the
\* tick after it was not skipped: the job is running again.
C4_Witness ==
    \E j \in Jobs : lastLog[j] = "timeout" /\ lastTick[j] = "ran" /\ jobPc[j] = "running"

\* C5: Stop is never pending for more than the 1-minute drain bound: when the
\* bound is reached Stop can return, whatever the jobs do.
C5_StopReturnsWithinDrain ==
    /\ stopElapsed <= DrainTimeout
    /\ (stopPc = "waiting" /\ stopElapsed = DrainTimeout) => ENABLED StopReturnTimeout

\* C5 witness: Stop returned on the timer while a job whose context is
\* cancelled is still running.
C5_Witness ==
    /\ stopPc = "returnedTimeout"
    /\ \E j \in Jobs : jobPc[j] = "running" /\ ctxErr[j] = "canceled"

IsPanicReturn(j) == inflight'[j] < inflight[j] /\ lastLog'[j] = "panic"

\* C15 amended: a panic is recovered and logged (no count of panics is
\* kept); the panicked invocation stops being counted as active and gives its
\* skip token back, the other jobs and the cron are left as they were, and
\* whenever the cron runs, a tick of a job with nothing in flight starts it,
\* also after a panic of that job or of another.
C15_PanicContained ==
    /\ [][\A j \in Jobs :
            IsPanicReturn(j) =>
                /\ activeJobs' = activeJobs - 1
                /\ token'[j] /\ inflight'[j] = 0 /\ jobPc'[j] = "idle"
                /\ cronRunning' = cronRunning /\ shutdown' = shutdown
                /\ \A k \in Jobs \ {j} :
                      /\ jobPc'[k] = jobPc[k] /\ token'[k] = token[k]
                      /\ inflight'[k] = inflight[k] /\ ctxErr'[k] = ctxErr[k]]_vars
    /\ [](\A j, k \in Jobs :
            (lastLog[j] = "panic" /\ cronRunning /\ inflight[k] = 0)
                => ENABLED (Tick(k) /\ lastTick'[k] = "ran"))

\* C15 as stated: a panic is recovered, logged and counted (a count the
\* scheduler keeps goes up in the step that logs it), and contained.
C15_Original ==
    /\ [][\A j \in Jobs :
            IsPanicReturn(j) =>
                \E i \in 1..Len(JobCounters) : JobCounters'[i] > JobCounters[i]]_vars
    /\ C15_PanicContained

\* C15 witness: a job whose previous invocation panicked is running again
\* while the other job runs too.
C15_Witness ==
    \E j, k \in Jobs :
        /\ j # k
        /\ lastLog[j] = "panic" /\ lastTick[j] = "ran" /\ jobPc[j] = "running"
        /\ jobPc[k] = "running" /\ activeJobs = 2

\* C16: while an invocation runs, its context is cancelled exactly when
\* jobTimeout has elapsed since it started or the scheduler has been shut
\* down; the context goes from live to cancelled only in the step of the
\* first of the two events (and then reports that event), never by an act of
\* the wrapper.
C16_CancelledAtEarlierEvent ==
    /\ [](\A j \in Jobs :
            jobPc[j] = "running" => (ctxErr[j] # "none" <=> (pastDeadline[j] \/ shutdown)))
    /\ [][\A j \in Jobs :
            (/\ jobPc[j] = "running" /\ jobPc'[j] = "running"
             /\ ctxErr[j] = "none" /\ ctxErr'[j] # "none")
            => \/ ctxErr'[j] = "deadline" /\ ~pastDeadline[j] /\ pastDeadline'[j] /\ ~shutdown'
               \/ ctxErr'[j] = "canceled" /\ ~shutdown /\ shutdown' /\ ~pastDeadline'[j]]_vars

\* C16 witness: two invocations are running after shutdown; the deadline of
\* one came first, the shutdown cancelled the other before its deadline.
C16_Witness ==
    \E j, k \in Jobs :
        /\ jobPc[j] = "running" /\ jobPc[k] = "running" /\ shutdown
        /\ ctxErr[j] = "deadline" /\ pastDeadline[j]
        /\ ctxErr[k] = "canceled" /\ ~pastDeadline[k]

(***************************************************************************)
(* Registration claims                                                     *)
(***************************************************************************)

\* C2: a registration's status only ever goes pending -> approved or
\* pending -> rejected; approved and rejected are terminal.
C2_StatusTransitions ==
    [][\A i \in 1..Len(registrations) :
         \/ registrations'[i].status = registrations[i].status
         \/ /\ registrations[i].status = "pending"
            /\ registrations'[i].status \in {"approved", "rejected"}]_vars

\* C10: at most one registration whose status is not rejected exists for any
\* address.
C10_OneOwnerPerAddress ==
    \A a \in Addrs :
        Cardinality({i \in 1..Len(registrations) :
                        registrations[i].address = a /\ registrations[i].status # "rejected"}) <= 1

\* C11: a registration row is inserted only by a call that has probed the
\* submitted address with the probe of the request's node type, with success
\* (a SubmitRegistration past validateNode).
C11_ProbedBeforeInsert ==
    [][Len(registrations') > Len(registrations)
       => \E c \in Callers : /\ call[c].op = "submit" /\ call[c].pc = "create"
                             /\ call'[c].result = "ok"
                             /\ registrations'[Len(registrations')].address = call[c].address]_vars

\* C12: when Approve returns without error for a registration of address a and
\* node type t, the monitored table of t has a row for a and the roster the
\* next checkAll of that class loads (the active rows) includes a.
C12_ApprovedIsMonitored ==
    [][\A c \in Callers, t \in NodeTypes, a \in Addrs :
         (/\ call[c].op = "approve" /\ call[c].nodeType = t /\ call[c].address = a
          /\ call'[c].result = "ok")
         => (ServerExists(t, a) /\ a \in GetActiveServers(t))']_vars

C12_Witness ==
    \E i \in 1..Len(registrations) :
        /\ registrations[i].status = "approved"
        /\ registrations[i].address \in GetActiveServers(registrations[i].nodeType)
        /\ \E c \in Callers : call[c].result = "ok"

\* C13: Approve or Reject of a registration that does not exist or is not
\* pending returns an error (it is never admitted past the load), and the step
\* that returns it changes neither the registrations nor a monitored table.
C13_ReviewRefused ==
    [][\A c \in Callers :
         (call[c].pc = "idle" /\ call'[c] # call[c]) =>
           /\ call'[c].op \in {"approve", "reject"} =>
                 RegGetByID(call'[c].id).status = "pending"
           /\ call'[c].result \in {"not found", "not pending"} =>
                 (registrations' = registrations /\ servers' = servers)]_vars

C13_Witness ==
    /\ \E c \in Callers : call[c].result = "not pending"
    /\ \E c \in Callers : call[c].result = "not found"
    /\ servers # {}

(***************************************************************************)
(* Roster sync claims                                                      *)
(***************************************************************************)

\* A step is a roster sync exactly when the sync bit flips.
IsSync == syncBit' # syncBit

\* C17: after a sync that completed (here: without any store error), every
\* row that was active before it and whose address the roster does not list
\* has is_active = false, whichever monitor variant synced.
C17_DroppedAreDeactivated ==
    [][(IsSync /\ lastSync' = "clean") =>
          \A a \in SyncAddrs :
              (nodes[a] # NoNode /\ nodes[a].is_active /\ a \notin Desired(source))
                  => ~nodes'[a].is_active]_vars

\* C18: after a sync that completed without per-entry errors, every address
\* the roster lists has a row with is_active = true, also when its row was
\* deactivated before the sync.
C18_DesiredAreActive ==
    [][(IsSync /\ lastSync' = "clean") =>
          \A a \in Desired(source) : nodes'[a] # NoNode /\ nodes'[a].is_active]_vars

\* C19: a sync that follows a completed sync of the same, unedited roster
\* file, with no other writer in between, changes no row of the table, also
\* when the file lists an address more than once.
C19_SecondSyncChangesNothing ==
    [][(IsSync /\ lastSync = "clean") => nodes' = nodes]_vars

(***************************************************************************)
(* Status upsert claims                                                    *)
(***************************************************************************)

\* A step is a CreateStatus call exactly when the call bit flips.
IsCreate == createBit' # createBit

OneRowPerKey(tbl) ==
    \A x, y \in tbl : (x.id = y.id /\ x.date = y.date) => x = y

\* The stored rows without their created_at column.
WithoutCreatedAt(tbl) == {StatusRow(x, 0) : x \in tbl}

\* C20 as stated: CreateStatus never makes a second row for an (entity_id,
\* date), and a call that repeats the payload of the latest write leaves every
\* field of the stored rows unchanged.
C20_Original ==
    /\ [](OneRowPerKey(statuses))
    /\ [][(IsCreate /\ lastStatus'.again) => statuses' = statuses]_vars

\* C20 amended: CreateStatus never makes a second row for an (entity_id,
\* date), and a call that repeats the payload of the latest write leaves every
\* field of the stored rows unchanged except created_at, which the bootstrap
\* and gRPC upserts set to the time of the call; the JSON-RPC upsert leaves
\* created_at too.
C20_UpsertKeepsPayload ==
    /\ [](OneRowPerKey(statuses))
    /\ [][(IsCreate /\ lastStatus'.again) =>
             /\ WithoutCreatedAt(statuses') = WithoutCreatedAt(statuses)
             /\ \A x \in statuses' : x \in statuses \/ x.created_at = dbNow
             /\ cls = "jsonrpc" => statuses' = statuses]_vars

\* C20 witness: the latest write repeated its payload at a later time and
\* refreshed created_at of the one row of its key, next to a row of another
\* date.
C20_Witness ==
    /\ lastStatus.again /\ dbNow > 0 /\ cls # "jsonrpc"
    /\ StatusRow(lastStatus.payload, dbNow) \in statuses
    /\ Cardinality(statuses) = 2


(***************************************************************************)
(* JSON-RPC facade claims                                                  *)
(***************************************************************************)

\* C21: a registerNode request whose node_type is not grpc or jsonrpc, whose
\* network is not mainnet or testnet, whose name length is outside 2..255 or
\* whose email is malformed is answered with an error and inserts no
\* registration row.
C21_BadShapeRejected ==
    [][\A i \in 1..Len(rpcReply'.requests) :
          (/\ rpcReply'.requests[i].method = "registerNode"
           /\ ~BindingValid(rpcReply'.requests[i].params))
          => /\ rpcReply'.responses[i].code # 0
             /\ nodeRegistrations' = nodeRegistrations]_vars

\* The methods some case of the two switches names.
KnownMethods == Phase2Methods \cup Phase1Delegated

\* C22: a request naming an unknown method is answered with code -32601 and
\* runs no core operation (the table stays as it was); a request whose core
\* operation returns an error is answered with code -32000 and that error's
\* message.
C22_ErrorCodes ==
    [][\A i \in 1..Len(rpcReply'.requests) :
          /\ rpcReply'.requests[i].method \notin KnownMethods
             => /\ rpcReply'.responses[i].code = -32601
                /\ rpcReply'.ops[i] = << >>
                /\ Len(rpcReply'.requests) = 1 => nodeRegistrations' = nodeRegistrations
          /\ \A k \in 1..Len(rpcReply'.ops[i]) :
                rpcReply'.ops[i][k].err # ""
                => /\ rpcReply'.responses[i].code = -32000
                   /\ rpcReply'.responses[i].message = rpcReply'.ops[i][k].err]_vars

\* One exchange answered an unknown method and a failed core operation.
C22_Witness ==
    \E i, j \in 1..Len(rpcReply.requests) :
        /\ rpcReply.requests[i].method = "getPeers"
        /\ rpcReply.responses[i].code = -32601
        /\ rpcReply.ops[j] # << >>
        /\ rpcReply.ops[j][1].err # ""
        /\ rpcReply.responses[j].code = -32000

\* The sequence without its j-th element.
RemoveAt(seq, j) == [k \in 1..(Len(seq) - 1) |-> IF k < j THEN seq[k] ELSE seq[k + 1]]

C24_MissingRowIsNil ==
    lastGet.repo # "none"
    => /\ (lastGet.storeOk /\ ~lastGet.existed) => (lastGet.value = 0 /\ lastGet.err = "")
       /\ lastGet.err # "" => ~lastGet.storeOk


(***************************************************************************)
(* Probe claims                                                            *)
(***************************************************************************)

OfTheForm(parts) ==
    /\ Len(parts) >= 5
    /\ parts[1] = ""
    /\ parts[2] \in {"dns", "dns4", "ip4", "ip6"}
    /\ parts[3] # ""
    /\ parts[4] = "tcp"
    /\ parts[5] # ""

\* C26: for an address of the form /<family>/<host>/tcp/<port>/... with
\* family in {dns, dns4, ip4, ip6} the parser returns exactly that host and
\* that port; for any other address it returns a parse error.
C26_ParserExact ==
    parseOut # NotParsed
    => IF OfTheForm(parseIn)
       THEN parseOut = Parsed(parseIn[3], parseIn[5], "")
       ELSE parseOut.err # ""

\* C28: once its context is cancelled, a probe starts neither another
\* inter-attempt sleep nor another attempt.
C28_NoSleepAfterCancel ==
    [][(/\ probe.ctx = "cancelled"
        /\ probe'.ctx = "cancelled"
        /\ probe'.pc # probe.pc)
       => probe'.pc \notin {"dialing", "sleeping"}]_vars

\* C31: the attempts value a finished probe reports equals the number of
\* attempts it executed and never exceeds maxRetries; so it is >= 1 exactly
\* when at least one attempt was executed.
C31_AttemptsAreCounted ==
    probe.pc = "done"
    => /\ probe.attempts = probe.dials
       /\ probe.attempts <= probe.maxRetries
       /\ (probe.attempts >= 1) <=> (probe.dials >= 1)

(***************************************************************************)
(* Worker pool claims                                                      *)
(***************************************************************************)

\* C27: updateAllScores is called only after every probe of the batch has
\* finished, and not at all when the context was cancelled before every
\* entity had been processed.
C27_ScoresOnlyAfterNormalBatch ==
    pool.scores # "none"
    => /\ pool.waiting = 0 /\ pool.inflight = 0
       /\ ~pool.cancelledEarly

\* C29: never more than maxConcurrent probes are in flight; a checkAll that
\* returns after loading its roster has processed every entity and holds no
\* slot; and every running checkAll returns.
C29_PoolBoundedAndDrains ==
    /\ [](pool.inflight <= maxConcurrent)
    /\ []((pool.pc = "returned" /\ pool.ret = "nil")
           => (pool.inflight = 0 /\ pool.ok + pool.failed = pool.n))
    /\ ((pool.pc = "running") ~> (pool.pc = "returned"))

\* Every slot is taken and workers still wait.
C29_Witness ==
    /\ pool.pc = "running"
    /\ pool.inflight = maxConcurrent
    /\ pool.waiting > 0

\* C30: a checkAll whose workers failed for some entities, or whose
\* updateAllScores failed, has still run a worker for every entity, and
\* returns nil.
C30_FailuresContained ==
    (pool.pc = "returned" /\ (pool.failed > 0 \/ pool.scores = "failed"))
    => /\ pool.ok + pool.failed = pool.n
       /\ pool.ret = "nil"

\* A checkAll returned after one worker failed, another succeeded, and the
\* score update failed.
C30_Witness ==
    /\ pool.pc = "returned"
    /\ pool.failed > 0 /\ pool.ok > 0
    /\ pool.scores = "failed"
    /\ pool.ret = "nil"


(***************************************************************************)
(* Approval claims                                                         *)
(***************************************************************************)

\* C32: the row an Approve inserts in the monitored table matching the node
\* type, gRPC as well as JSON-RPC, is active and, when the geo lookup resolved
\* a valid location, stores that location.
C32_ApprovedRowStoresGeo ==
    \A s \in servers :
        /\ s.is_active
        /\ GeoValid(s.address) => s.hasGeo


\* C35: Approve is all-or-nothing: when an Approve returns an error after
\* reading its registration, the monitored table does not hold a row for that
\* registration next to the registration still being pending.
C35_ApproveAllOrNothing ==
    [][\A c \in Callers :
          (/\ call[c].op = "approve"
           /\ call[c].pc \in {"server", "update"}
           /\ call'[c].result = "error")
          => ~(/\ \E s \in servers' : /\ s.table = call[c].nodeType
                                      /\ s.address = call[c].address
               /\ registrations'[call[c].id].status = "pending")]_vars


(***************************************************************************)
(* Geo cache claims                                                        *)
(***************************************************************************)

\* C33: a lookup for an IP whose cached entry is younger than the 7-day TTL
\* returns the cached location without calling the oracle and leaves the cache
\* alone; any other lookup calls the oracle, and then a success is stored for
\* that IP with the current time and returned, while a failure changes no
\* entry of the cache.
C33_CacheOrOracle ==
    [][/\ (geo.pc = "idle" /\ geo'.bit # geo.bit)
          => /\ geo.cache[geo'.ip].location \in Locations
             /\ geo.now - geo.cache[geo'.ip].cachedAt < 7
             /\ geo'.ret = [location |-> geo.cache[geo'.ip].location, err |-> FALSE]
             /\ ~geo'.called
             /\ geo'.cache = geo.cache
       /\ (geo.pc = "idle" /\ geo'.pc = "fetch")
          => \/ geo.cache[geo'.ip].location \notin Locations
             \/ geo.now - geo.cache[geo'.ip].cachedAt >= 7
       /\ (geo.pc = "fetch" /\ geo'.pc = "idle")
          => /\ geo'.called
             /\ geo'.ret.err => geo'.cache = geo.cache
             /\ ~geo'.ret.err
                => /\ geo'.ret.location \in Locations
                   /\ geo'.cache = [geo.cache EXCEPT ![geo.ip] =
                          [location |-> geo'.ret.location, cachedAt |-> geo.now]]]_vars

\* After the TTL has run out for some entry, a lookup went to the oracle and
\* its answer was stored with the current time.
C33_Witness ==
    /\ geo.pc = "idle" /\ geo.called /\ ~geo.ret.err
    /\ geo.now >= 7
    /\ geo.cache[geo.ip] = [location |-> geo.ret.location, cachedAt |-> geo.now]
    /\ \E ip \in Ips : geo.cache[ip] # NoEntry /\ geo.now - geo.cache[ip].cachedAt >= 7


(***************************************************************************)
(* Retention claims                                                        *)
(***************************************************************************)

\* C34: no roster change, checkAll or score recomputation deletes a monitored
\* row or a daily-status row: a stored entity stays stored, every (entity,
\* date) key of the status table stays, and a deactivation changes nothing
\* but is_active.
C34_NothingDeleted ==
    [][/\ \A e \in Entities : entity[e] # "absent" => entity'[e] # "absent"
       /\ \A x \in rows : \E y \in rows' : y.id = x.id /\ y.date = x.date
       /\ \A e \in Entities :
             (entity[e] = "active" /\ entity'[e] = "inactive")
             => /\ rows' = rows
                /\ score' = score
                /\ \A f \in Entities \ {e} : entity'[f] = entity[f]]_vars

\* An entity dropped from the roster is inactive and still has its history.
C34_Witness ==
    \E e \in Entities :
        /\ entity[e] = "inactive"
        /\ \E x \in rows : x.id = e


(***************************************************************************)
(* Rate limiter claims                                                     *)
(***************************************************************************)

\* C36: within the period of length window that follows a lastReset of the
\* client, no more than limit of the client's requests are admitted, whatever
\* the interleaving of the requests and the sweeper.
C36_AtMostLimitPerWindow ==
    \A o \in 1..limiter.allocated :
        LET lr == limiter.obj[o].lastReset IN
        limiter.admitted[lr]
          + (IF lr + 1 <= MaxLimNow THEN limiter.admitted[lr + 1] ELSE 0) <= limit


(***************************************************************************)
(* Shutdown claims                                                         *)
(***************************************************************************)

\* C37: once Stop has returned through its "all jobs completed" case, no job
\* body is executing (and so none has started since), also when a tick fired
\* while Stop was being called.
C37_NoJobAfterAllCompleted ==
    stopPc = "returnedDone" => \A j \in Jobs : jobPc[j] # "running"


(***************************************************************************)
(* Roster loading claims                                                   *)
(***************************************************************************)

\* C38: a roster sync whose source could not be loaded (not read, not parsed,
\* or refused by the loader's validation) returns an error and changes no
\* monitored row; the loader of the bootstrap roster refuses an empty list and
\* a list with an entry that lacks its address or its name, so such a file
\* deactivates no entity.
C38_UnloadedChangesNothing ==
    [][IsSync =>
         /\ lastSync' = "unloaded" => nodes' = nodes
         /\ (/\ cls = "bootstrap"
             /\ \/ source = << >>
                \/ \E i \in 1..Len(source) :
                      source[i].address = "" \/ source[i].name = "")
            => lastSync' = "unloaded"]_vars

\* The roster file became empty while the table held an active entity, a
\* bootstrap sync ran on it, and the entity is still active.
C38_Witness ==
    /\ cls = "bootstrap"
    /\ source = << >>
    /\ lastSync = "unloaded"
    /\ \E a \in TableAddrs : nodes[a] # NoNode /\ nodes[a].is_active


(***************************************************************************)
(* Timeout middleware claims                                               *)
(***************************************************************************)

\* C39: the goroutine that runs the request handler can always terminate once
\* the handler has returned: it is never left at its send on finished after
\* the middleware has answered 504 and returned, where nothing can receive.
C39_HandlerGoroutineEnds ==
    \A r \in HttpRequests :
        inTimeout[r].handler = "sending" => inTimeout[r].mw = "select"

====
